---- MODULE Spec2Model ----
(***************************************************************************)
(* A model of rspec's execution engine: the Suite/Context/Block/Example    *)
(* tree, Runner::run and its recursive visit (hook scoping, environment    *)
(* cloning, serial and parallel fan-out over the blocks of a context,      *)
(* panic containment at the example boundary) and the Report aggregation.  *)
(*                                                                         *)
(* The tree is an arena: a sequence of nodes, node 1 being the root        *)
(* context of the suite; a context names its blocks by their index.        *)
(* The environment T is modelled freely: an environment is the trace of    *)
(* the hook applications that produced it, so that any two different       *)
(* histories of mutation are different values.  Durations are left out.    *)
(***************************************************************************)
EXTENDS Integers, Sequences, FiniteSets, Bags, TLC

\* Number of hooks registered in each hook list of a context is 0..MaxHooks.
MaxHooks == 2

\* Observers registered on the runner.
NumObservers == 2

(***************************************************************************)
(* Option<T>                                                               *)
(***************************************************************************)
None == [tag |-> "None"]

Some(v) == [tag |-> "Some", value |-> v]

(***************************************************************************)
(* ExampleResult and the conversions into it                               *)
(***************************************************************************)
Success == [tag |-> "Success"]

Failure(message) == [tag |-> "Failure", message |-> message]

Ignored == [tag |-> "Ignored"]

\* What the closure given to Context::example does when it is called: it
\* returns a value of one of the accepted types, or it panics with a payload.
Returns(type, value) == [panics |-> FALSE, type |-> type, value |-> value]

Panics(type, value) == [panics |-> TRUE, type |-> type, value |-> value]

\* The closure returns Err(error), error being a value of a type that
\* implements Debug.
ReturnsErr(error) ==
    [panics |-> FALSE, type |-> "Result", value |-> "Err", error |-> error]

\* Error values: the unit value, as in tests::from_result, and a &str.
ErrUnit == [type |-> "unit", value |-> "()"]

ErrStr == [type |-> "&str", value |-> "bad"]

ErrorValues == {ErrUnit, ErrStr}

BodyKinds ==
    { Returns("unit", "()"),
      Returns("bool", "true"),
      Returns("bool", "false"),
      Returns("Result", "Ok"),
      ReturnsErr(ErrStr),
      Returns("ExampleResult", "Ignored"),
      Panics("&str", "boom"),
      Panics("String", "boom"),
      Panics("i32", "42") }

\* impl From<()> for ExampleResult
FromUnit == Success

\* The grave accent (U+0060), a character that a TLA+ string cannot hold.
GraveAccent == "<U+0060>"

\* impl From<bool> for ExampleResult
FromBool(other) ==
    IF other = "true"
    THEN Success
    ELSE Failure(Some("assertion failed: " \o GraveAccent
                        \o "expected condition to be true" \o GraveAccent))

\* format!("{}", error): the text of a string as it is.
DisplayFormat(error) == error.value

\* format!("{:?}", error) of the error value of a Result: Debug writes the
\* unit value as () and a string between double quotes.
DebugFormat(error) ==
    CASE error.type = "unit" -> "()"
      [] error.type \in {"&str", "String"} -> "\"" \o error.value \o "\""

\* impl From<Result<T1, T2>> for ExampleResult
FromResult(other) ==
    IF other.value = "Ok"
    THEN Success
    ELSE Failure(Some(DebugFormat(other.error)))

\* A conversion that drops the value the body returned.
IntoSuccess(ret) == Success

\* body(&environment).into()
Into(ret) ==
    CASE ret.type = "unit" -> FromUnit
      [] ret.type = "bool" -> FromBool(ret.value)
      [] ret.type = "Result" -> FromResult(ret)
      [] ret.type = "ExampleResult" -> [tag |-> ret.value]

\* error.downcast_ref::<&str>() / error.downcast_ref::<String>()
DowncastRef(payload, type) ==
    IF payload.type = type THEN Some(payload.value) ELSE None

\* Option::or
OptionOr(a, b) == IF a.tag = "Some" THEN a ELSE b

\* format! of the panic text with the Debug form of cow.to_string(), which
\* puts the text between double quotes
PanicMessage(text) == "thread panicked at '\"" \o text \o "\"'."

\* An extraction that recognises only the &str payloads.
PanicPayloadMessageStrOnly(payload) ==
    LET error_as_str == DowncastRef(payload, "&str")
    IN  IF error_as_str.tag = "Some"
        THEN Some(PanicMessage(error_as_str.value))
        ELSE None

\* The message example_internal extracts from a caught panic payload.
PanicPayloadMessage(payload) ==
    LET error_as_str == DowncastRef(payload, "&str")
        error_as_string == DowncastRef(payload, "String")
        found == OptionOr(error_as_str, error_as_string)
    IN  IF found.tag = "Some" THEN Some(PanicMessage(found.value)) ELSE None

\* A closure that reports a caught panic as Ignored.
example_internal_ignoring_panic(body) ==
    IF body.panics THEN Ignored ELSE Into(body)

\* The closure Context::example_internal stores in the Example: the body is
\* called under catch_unwind and a caught panic becomes a Failure.
example_internal(body) ==
    IF body.panics
    THEN Failure(PanicPayloadMessage(body))
    ELSE Into(body)

(***************************************************************************)
(* ExampleResult / ExampleReport / BlockReport / ContextReport /           *)
(* SuiteReport: the Report trait                                           *)
(***************************************************************************)
\* An is_success that is the negation of is_failure.
ExampleResult_is_not_failure(r) == r.tag # "Failure"

ExampleResult_is_success(r) == r = Success

\* An is_failure that is the negation of is_success.
ExampleResult_is_not_success(r) == r # Success

ExampleResult_is_failure(r) == r.tag = "Failure"

ExampleResult_get_passed(r) == IF r = Success THEN 1 ELSE 0

\* A count that takes only the failures that carry a message.
ExampleResult_get_failed_with_message(r) ==
    IF r.tag = "Failure" /\ r.message.tag = "Some" THEN 1 ELSE 0

ExampleResult_get_failed(r) == IF r.tag = "Failure" THEN 1 ELSE 0

ExampleResult_get_ignored(r) == IF r = Ignored THEN 1 ELSE 0

ExampleReport(result) == [result |-> result]

BlockReportExample(header, report) ==
    [tag |-> "Example", header |-> header, report |-> report]

BlockReportContext(header, report) ==
    [tag |-> "Context", header |-> header, report |-> report]

ContextReport(sub_reports) == [sub_reports |-> sub_reports]

SuiteReport(header, context) == [header |-> header, context |-> context]

RECURSIVE BlockReport_is_failure(_), ContextReport_is_failure(_)

RECURSIVE BlockReport_get_passed(_), ContextReport_get_passed(_)

RECURSIVE BlockReport_get_failed(_), ContextReport_get_failed(_)

RECURSIVE BlockReport_get_ignored(_), ContextReport_get_ignored(_)

RECURSIVE SumSeq(_)

SumSeq(s) == IF s = <<>> THEN 0 ELSE Head(s) + SumSeq(Tail(s))

BlockReport_is_failure(b) ==
    IF b.tag = "Context"
    THEN ContextReport_is_failure(b.report)
    ELSE ExampleResult_is_failure(b.report.result)

\* A count that looks at the examples of the context itself and not into
\* the contexts nested in it.
BlockReport_get_passed_flat(b) ==
    IF b.tag = "Context"
    THEN 0
    ELSE ExampleResult_get_passed(b.report.result)

BlockReport_get_passed(b) ==
    IF b.tag = "Context"
    THEN ContextReport_get_passed(b.report)
    ELSE ExampleResult_get_passed(b.report.result)

BlockReport_get_failed(b) ==
    IF b.tag = "Context"
    THEN ContextReport_get_failed(b.report)
    ELSE ExampleResult_get_failed(b.report.result)

BlockReport_get_ignored(b) ==
    IF b.tag = "Context"
    THEN ContextReport_get_ignored(b.report)
    ELSE ExampleResult_get_ignored(b.report.result)

ContextReport_is_failure(c) ==
    \E i \in 1..Len(c.sub_reports) : BlockReport_is_failure(c.sub_reports[i])

ContextReport_get_passed(c) ==
    SumSeq([i \in 1..Len(c.sub_reports) |->
                BlockReport_get_passed(c.sub_reports[i])])

ContextReport_get_failed(c) ==
    SumSeq([i \in 1..Len(c.sub_reports) |->
                BlockReport_get_failed(c.sub_reports[i])])

ContextReport_get_ignored(c) ==
    SumSeq([i \in 1..Len(c.sub_reports) |->
                BlockReport_get_ignored(c.sub_reports[i])])

SuiteReport_is_failure(s) == ContextReport_is_failure(s.context)

SuiteReport_get_passed(s) == ContextReport_get_passed(s.context)

SuiteReport_get_failed(s) == ContextReport_get_failed(s.context)

SuiteReport_get_ignored(s) == ContextReport_get_ignored(s.context)

(***************************************************************************)
(* The tree: Suite, Context, Example.  A node of the arena has the fields  *)
(* of Context<T> and of Example<T>; an example leaves the context fields   *)
(* empty and a context has no function.                                    *)
(***************************************************************************)
HookLists == {"before_all", "before_each", "after_all", "after_each"}

\* The h closures registered in one hook list of context c, in registration
\* order; a closure is named by where it was registered.
Hooks(c, list, h) == [i \in 1..h |-> [ctx |-> c, list |-> list, i |-> i]]

\* Context::new(header), followed by the registration of h hooks in each
\* list and of the blocks.
ContextNew(c, header, blocks, h) ==
    [kind |-> "Context", header |-> header, blocks |-> blocks,
     before_all |-> Hooks(c, "before_all", h),
     before_each |-> Hooks(c, "before_each", h),
     after_all |-> Hooks(c, "after_all", h),
     after_each |-> Hooks(c, "after_each", h),
     function |-> None]

\* Example::new(header, assertion): the function is the closure built by
\* Context::example_internal around the body.
ExampleNew(header, body) ==
    [kind |-> "Example", header |-> header, blocks |-> <<>>,
     before_all |-> <<>>, before_each |-> <<>>,
     after_all |-> <<>>, after_each |-> <<>>,
     function |-> Some(body)]

\* Tree shapes the builder is driven to.  The root context of a suite has no
\* header (suite_internal); a context opened with Context::scope has none
\* either; Context::context gives Some(header).
ShapeContext(header, blocks) ==
    [kind |-> "Context", header |-> header, blocks |-> blocks]

ShapeExample(name) == [kind |-> "Example", header |-> name, blocks |-> <<>>]

Shapes ==
    << \* two sibling examples
       << ShapeContext(None, <<2, 3>>),
          ShapeExample("boom"), ShapeExample("ok") >>,
       \* a named context with one example, next to an example
       << ShapeContext(None, <<2, 4>>),
          ShapeContext(Some("adding"), <<3>>), ShapeExample("len"),
          ShapeExample("empty") >>,
       \* a named context holding an example and an anonymous scope
       << ShapeContext(None, <<2>>),
          ShapeContext(Some("outer"), <<3, 4>>), ShapeExample("first"),
          ShapeContext(None, <<5>>), ShapeExample("scoped") >>,
       \* a suite without blocks
       << ShapeContext(None, <<>>) >> >>

ExamplesOf(shape) == {n \in 1..Len(shape) : shape[n].kind = "Example"}

\* The bodies every example may have, and the one example of a suite that may
\* have any body of BodyKinds.
CoreBodies ==
    {Returns("unit", "()"), Returns("bool", "false"), Panics("&str", "boom")}

BodyAssignments(shape) ==
    {b \in [ExamplesOf(shape) -> BodyKinds] :
        Cardinality({n \in ExamplesOf(shape) : b[n] \notin CoreBodies}) <= 1}

\* suite_internal(header, environment, body): the suite built from a shape,
\* with h hooks in each list of each context and the given example bodies.
\* The initial environment is the empty trace.
suite_internal(name, shape, h, bodies) ==
    [header |-> name,
     environment |-> [live |-> TRUE, marks |-> <<>>],
     context |->
        [n \in 1..Len(shape) |->
            IF shape[n].kind = "Context"
            THEN ContextNew(n, shape[n].header, shape[n].blocks, h)
            ELSE ExampleNew(shape[n].header, bodies[n])]]

Suites ==
    UNION { {suite_internal("suite", Shapes[s], h, b) :
                h \in 0..MaxHooks, b \in BodyAssignments(Shapes[s])} :
            s \in 1..Len(Shapes) }

(***************************************************************************)
(* State                                                                   *)
(***************************************************************************)
VARIABLES
    suite,        \* the Suite<T> given to Runner::run
    runner,       \* the Runner: configuration, observers, should_exit
    panic_hook,   \* the process-wide panic hook
    run_pc,       \* where Runner::run and the visit of the suite stand
    report,       \* the SuiteReport built by the visit of the suite
    pc,           \* per node: where the evaluation of that block stands
    idx,          \* per node: position of the hook loop the node is in
    heap,         \* the environments alive, by the local that owns them
    reports,      \* per context: the Vec<BlockReport> being collected
    ret,          \* per node: the report its visit returned
    calls,        \* the observer calls made so far, in order
    steps,        \* per block: the steps of evaluate_block taken so far
    hook_calls,   \* per hook and block it ran for: number of executions
    body_calls,   \* per example: number of invocations of its body
    returned_order, \* the blocks in the order their evaluation returned
    seen,           \* per example: the environment its body received
    process,        \* the process: the runs made on the Runner, its drop, the exit
    other,          \* a run of the same Runner on another thread
    broadcasts,     \* the events Runner::broadcast was called for, in order
    legacy,         \* the Runner of src/runner.rs: its tree, its run, its report
    logger          \* a Logger or SerialLogger registered as observer: its state

vars == <<suite, runner, panic_hook, run_pc, report, pc, idx, heap, reports,
          ret, calls, steps, hook_calls, body_calls, returned_order, seen,
          process, other, broadcasts, legacy, logger>>

Root == 1

Nodes == 1..Len(suite.context)

Contexts == {n \in Nodes : suite.context[n].kind = "Context"}

Examples == {n \in Nodes : suite.context[n].kind = "Example"}

\* context.blocks, as indices into the arena
BlocksOf(c) == suite.context[c].blocks

BlockSet(c) == {BlocksOf(c)[i] : i \in 1..Len(BlocksOf(c))}

Parent(b) == CHOOSE c \in Contexts : b \in BlockSet(c)

IndexOf(b) == CHOOSE i \in 1..Len(BlocksOf(Parent(b))) : BlocksOf(Parent(b))[i] = b

RECURSIVE Descendants(_)

\* The blocks below node n, at any depth.
Descendants(n) ==
    BlockSet(n) \cup UNION {Descendants(b) : b \in BlockSet(n)}

\* A count that takes every block for one example, a context included.
Block_num_examples_one(b) == 1

RECURSIVE Block_num_examples(_), Context_num_examples(_)

\* Block::num_examples: 1 for an example, the count of the context for a
\* context.
Block_num_examples(b) ==
    IF suite.context[b].kind = "Context" THEN Context_num_examples(b) ELSE 1

\* Context::num_blocks and Context::num_examples: the length of blocks and
\* the sum of num_examples over the blocks.
Context_num_blocks(c) == Len(suite.context[c].blocks)

Context_num_examples(c) ==
    SumSeq([i \in 1..Len(suite.context[c].blocks) |->
              Block_num_examples(suite.context[c].blocks[i])])

\* Suite::num_examples: that of the root context.
Suite_num_examples == Context_num_examples(Root)

\* T::clone: an independent copy holding the same value.
T_clone(environment) == [live |-> TRUE, marks |-> environment.marks]

\* A local that is not alive (not yet bound, or dropped).
Dead == [live |-> FALSE, marks |-> <<>>]

\* Calling a hook closure on an environment: the environment records the
\* application, on being the node whose evaluation called the hook.
CallHook(hook, environment, on) ==
    [environment EXCEPT !.marks = Append(@, [hook |-> hook, on |-> on])]

\* Where the environment of the suite is kept: the field of the Suite<T>
\* the caller owns and lends to Runner::run.
SuiteEnv == <<"suite", 1>>

\* A run that visits the root context on the environment of the suite
\* itself.
ContextEnvInSuite(c) == IF c = 1 THEN SuiteEnv ELSE <<"visit", c>>

\* A visit of a Block::Context that hands the block's own environment to
\* the visit of the nested context.
ContextEnvOfBlock(c) == IF c = 1 THEN <<"visit", c>> ELSE <<"block", c>>

\* The locals holding environments: the environment of Runner::run for the
\* root context and the temporary environment.clone() of the visit of a
\* Block::Context for a nested one (ContextEnv); the environment of
\* evaluate_block (BlockEnv).
ContextEnv(c) == <<"visit", c>>

BlockEnv(b) == <<"block", b>>

Cells == ({"visit", "block"} \X Nodes) \cup {SuiteEnv}

\* The environments when suite s has been built and no run is under way:
\* the one of the suite, as the builder was given it.
HeapNew(s) ==
    [c \in ({"visit", "block"} \X (1..Len(s.context))) \cup {SuiteEnv} |->
        IF c = SuiteEnv THEN s.environment ELSE Dead]

\* One more execution of a hook, called by the evaluation of node on.
Called(bag, hook, on) == bag (+) SetToBag({[hook |-> hook, on |-> on]})

\* A loop that stops one hook short of the end of the list.
HooksLeftButLast(list, i) == i < Len(list)

\* The loop over a hook list, standing at position i, has a hook left to call.
HooksLeft(list, i) == i <= Len(list)

Event(name, header, rep) == [name |-> name, header |-> header, report |-> rep]

\* A broadcast that goes through the observers from the last to the first.
BroadcastReversed(log, event) ==
    log \o [o \in 1..Len(runner.observers) |->
                [observer |-> runner.observers[Len(runner.observers) + 1 - o],
                 event |-> event]]

\* A broadcast whose loop stops before the last observer.
BroadcastButLast(log, event) ==
    log \o [o \in 1..(Len(runner.observers) - 1) |->
                [observer |-> runner.observers[o], event |-> event]]

\* Runner::broadcast: the handler is called on every observer, in the order
\* of runner.observers.
Broadcast(log, event) ==
    log \o [o \in 1..Len(runner.observers) |->
                [observer |-> runner.observers[o], event |-> event]]

\* A visit of a context that broadcasts whether or not the context has a
\* header, an anonymous context going under the empty name.
BroadcastContextAlways(log, name, header, rep) ==
    Broadcast(log, Event(name, IF header.tag = "Some" THEN header.value ELSE "",
                         rep))

\* TestSuiteVisitor<Context<T>>::visit: "if let Some(ref header) =
\* context.header { self.broadcast(...) }".
BroadcastContext(log, name, header, rep) ==
    IF header.tag = "Some"
    THEN Broadcast(log, Event(name, header.value, rep))
    ELSE log

(***************************************************************************)
(* Logger and SerialLogger, the observers of src/logger                    *)
(***************************************************************************)
\* No logger is registered.
LoggerNone == [kind |-> "none"]

\* Logger::new(buffer) and SerialLogger::new(buffer): level 0.  forwarded
\* holds the calls the SerialLogger has received, failed the places in it of
\* the calls whose write on the buffer returned an error, underflow whether
\* level went below 0.
LoggerNew(kind) ==
    [kind |-> kind, level |-> 0, underflow |-> FALSE, failed |-> {},
     forwarded |-> <<>>]

\* Writes on the buffer of one logger that may return an error.
MaxWriteErrors == 1

\* state.level -= 1 on a usize.
LevelDown(state) ==
    IF state.level = 0
    THEN [state EXCEPT !.underflow = TRUE]
    ELSE [state EXCEPT !.level = @ - 1]

\* An exit_suite and exit_example that lower the level whether or not the
\* write succeeded.
LevelDownAfterWriteAlways(state, ok) == LevelDown(state)

\* exit_suite and exit_example write first, with "?", and lower the level
\* after: an error of the write returns from the closure before
\* "state.level -= 1".
LevelDownAfterWrite(state, ok) == IF ok THEN LevelDown(state) ELSE state

\* One call of the RunnerObserver impl of SerialLogger, ok telling whether
\* the writes of the call succeed: the enter calls raise the level and then
\* write; exit_context lowers the level and writes nothing.
SerialLogger_call(state, event, ok) ==
    LET received == [state EXCEPT !.forwarded = Append(@, event)]
        written == [received EXCEPT !.failed =
                       IF ok THEN @ ELSE @ \cup {Len(received.forwarded)}]
    IN  CASE event.name \in {"enter_suite", "enter_context", "enter_example"} ->
                [written EXCEPT !.level = @ + 1]
          [] event.name = "exit_context" -> LevelDown(received)
          [] event.name \in {"exit_suite", "exit_example"} ->
                LevelDownAfterWrite(written, ok)

RECURSIVE replay_block(_), replay_blocks(_, _)

\* Logger::replay_example
replay_example(example, rep) ==
    <<Event("enter_example", example, None),
      Event("exit_example", example, Some(rep))>>

\* Logger::replay_context: the calls for the header, if any, around those of
\* the blocks of the report.
replay_context(context, rep) ==
    (IF context = None THEN <<>>
     ELSE <<Event("enter_context", context.value, None)>>)
    \o replay_blocks(rep.sub_reports, 1)
    \o (IF context = None THEN <<>>
        ELSE <<Event("exit_context", context.value, Some(rep))>>)

\* Logger::replay_block
replay_block(rep) ==
    IF rep.tag = "Context"
    THEN replay_context(rep.header, rep.report)
    ELSE replay_example(rep.header, rep.report)

\* for report in report.get_blocks() { self.replay_block(runner, report) }
replay_blocks(blocks, i) ==
    IF i > Len(blocks)
    THEN <<>>
    ELSE replay_block(blocks[i]) \o replay_blocks(blocks, i + 1)

\* Logger::replay_suite
replay_suite(header, rep) ==
    <<Event("enter_suite", header, None)>>
    \o replay_context(None, rep.context)
    \o <<Event("exit_suite", header, Some(rep))>>

\* A Logger that forwards every call live whatever the mode.
LoggerForwardsLive(kind, parallel, event) == <<event>>

\* The calls the inner SerialLogger gets when the observer is called with
\* an event: a SerialLogger gets the call itself; a Logger forwards it in
\* serial mode and, in parallel mode, forwards nothing until exit_suite,
\* whose report it replays.
LoggerForwards(kind, parallel, event) ==
    IF kind = "Logger" /\ parallel
    THEN IF event.name = "exit_suite"
         THEN replay_suite(event.header, event.report.value)
         ELSE <<>>
    ELSE <<event>>

RECURSIVE SerialLogger_calls(_, _, _, _)

\* The first k calls of a sequence made on the SerialLogger, the writes of
\* the calls at the places of failed returning an error.
SerialLogger_calls(state, events, k, failed) ==
    IF k = 0
    THEN state
    ELSE SerialLogger_call(SerialLogger_calls(state, events, k - 1, failed),
                           events[k], k \notin failed)

\* Runner::broadcast reaches the logger with an event.
LoggerObserve(event) ==
    IF logger.kind = "none"
    THEN UNCHANGED logger
    ELSE LET events == LoggerForwards(logger.kind, runner.configuration.parallel,
                                      event)
         IN  \E failed \in SUBSET (1..Len(events)) :
                /\ \A k \in failed : events[k].name # "exit_context"
                /\ Cardinality(failed) + Cardinality(logger.failed) <= MaxWriteErrors
                /\ logger' = SerialLogger_calls(logger, events, Len(events), failed)

Step(name, i) == [step |-> name, i |-> i]

\* The body given to example / it / then for example e.
BodyOf(e) == suite.context[e].function.value

\* What the body of example e does, whatever is made of it: it fails (it
\* panics, or it returns false or an Err), or it succeeds (it returns (),
\* true or an Ok).
BodyFails(e) ==
    \/ BodyOf(e).panics
    \/ BodyOf(e) = Returns("bool", "false")
    \/ BodyOf(e).type = "Result" /\ BodyOf(e).value = "Err"

BodySucceeds(e) ==
    BodyOf(e) \in {Returns("unit", "()"), Returns("bool", "true"),
                   Returns("Result", "Ok")}

\* Some body of the suite fails.
SuiteFails == \E e \in Examples : BodyFails(e)

\* The status process::exit is called with.
ExitCode == 101

\* The process before any run: the Runner is alive, no run has been made.
\* previous_hook is the panic hook that was in place when the latest run was
\* called; completed lists, for the runs that returned, whether a body of
\* their suite fails.
ProcessNew ==
    [state |-> "alive", exit_code |-> None, previous_hook |-> "default",
     runs |-> 0, completed |-> <<>>]

\* Another thread that has not called run.
OtherIdle == [pc |-> "idle", fails |-> FALSE, runs |-> 0]

InitOf(suites) ==
    /\ suite \in suites
    /\ runner \in {[configuration |-> [parallel |-> p, exit_on_failure |-> TRUE],
                    observers |-> [o \in 1..NumObservers |-> o],
                    should_exit |-> FALSE] : p \in BOOLEAN}
    /\ panic_hook = "default"
    /\ run_pc = "ready"
    /\ report = None
    /\ pc = [n \in Nodes |-> "idle"]
    /\ idx = [n \in Nodes |-> 0]
    /\ heap = HeapNew(suite)
    /\ reports = [n \in Nodes |-> <<>>]
    /\ ret = [n \in Nodes |-> None]
    /\ calls = <<>>
    /\ broadcasts = <<>>
    /\ steps = [n \in Nodes |-> <<>>]
    /\ hook_calls = EmptyBag
    /\ returned_order = <<>>
    /\ body_calls = [n \in Nodes |-> 0]
    /\ seen = [n \in Nodes |-> None]
    /\ process = ProcessNew
    /\ other = OtherIdle

\* No Runner of src/runner.rs has been built.
LegacyNone == [pc |-> "none"]

Init == InitOf(Suites) /\ legacy = LegacyNone /\ logger = LoggerNone

(***************************************************************************)
(* Runner::run and the visit of the suite                                  *)
(***************************************************************************)
\* Runner::prepare_before_run: panic::set_hook of a hook that prints nothing.
prepare_before_run == "silent"

\* A clean_after_run that puts back the hook that was in place when run was
\* called.
clean_after_run_restoring == process.previous_hook

\* A clean_after_run that leaves the silent hook in place while the run of
\* the other thread is between its prepare_before_run and clean_after_run.
clean_after_run_counted ==
    IF run_pc \in {"visit_suite", "in_suite", "panicking"} \/ other.pc = "visit"
    THEN panic_hook
    ELSE "default"

\* Runner::clean_after_run: panic::take_hook unregisters the current hook and
\* leaves the default one in place.
clean_after_run == "default"

\* Calls of Runner::run made on one Runner, on the two threads together.
MaxRuns == 2

\* Runner::run may be called once more on the Runner.
RunsLeft == process.runs + other.runs < MaxRuns

\* Runner::run, up to the call of visit: the suite's environment is cloned
\* and the panic hook replaced.
Run ==
    /\ run_pc = "ready"
    /\ process.state = "alive"
    /\ RunsLeft
    /\ heap' = [heap EXCEPT ![ContextEnv(Root)] = T_clone(heap[SuiteEnv])]
    /\ panic_hook' = prepare_before_run
    /\ run_pc' = "visit_suite"
    /\ process' = [process EXCEPT !.previous_hook = panic_hook, !.runs = @ + 1]
    /\ UNCHANGED <<logger, legacy, other, suite, runner, report, pc, idx, reports, ret, calls, broadcasts, steps,
                   hook_calls, body_calls, seen,
                   returned_order>>

\* TestSuiteVisitor<Suite<T>>::visit, first half: enter_suite is broadcast
\* and the root context is visited.
EnterSuite ==
    /\ run_pc = "visit_suite"
    /\ calls' = Broadcast(calls, Event("enter_suite", suite.header, None))
    /\ broadcasts' = Append(broadcasts, Event("enter_suite", suite.header, None))
    /\ pc' = [pc EXCEPT ![Root] = "enter"]
    /\ run_pc' = "in_suite"
    /\ LoggerObserve(Event("enter_suite", suite.header, None))
    /\ UNCHANGED <<legacy, process, other, suite, runner, panic_hook, report, idx, heap, reports, ret,
                   steps, hook_calls, body_calls, seen,
                   returned_order>>

\* TestSuiteVisitor<Suite<T>>::visit, second half: the SuiteReport is built
\* from the root context's report and exit_suite is broadcast.
ExitSuite ==
    /\ run_pc = "in_suite"
    /\ pc[Root] = "done"
    /\ LET r == SuiteReport(suite.header, ret[Root].value)
       IN  /\ calls' = Broadcast(calls, Event("exit_suite", suite.header, Some(r)))
           /\ broadcasts' = Append(broadcasts,
                                   Event("exit_suite", suite.header, Some(r)))
           /\ report' = Some(r)
    /\ run_pc' = "clean"
    /\ LoggerObserve(Event("exit_suite", suite.header,
                          Some(SuiteReport(suite.header, ret[Root].value))))
    /\ UNCHANGED <<legacy, process, other, suite, runner, panic_hook, pc, idx, heap, reports, ret,
                   steps, hook_calls, body_calls, seen,
                   returned_order>>

\* Runner::run: clean_after_run.  The environment of run is dropped when run
\* returns.
CleanAfterRun ==
    /\ run_pc = "clean"
    /\ panic_hook' = clean_after_run
    /\ run_pc' = "record"
    /\ UNCHANGED <<logger, legacy, process, other, suite, runner, report, pc, idx, heap, reports, ret, calls, broadcasts,
                   steps, hook_calls, body_calls, seen,
                   returned_order>>

\* A flag that takes the outcome of the latest run.
RecordShouldExitAssign(should_exit, is_failure) == is_failure

\* Runner::run: "|=" on the flag held by the mutex.
RecordShouldExit(should_exit, is_failure) == should_exit \/ is_failure

\* Runner::run: should_exit |= report.is_failure(), under the lock of the
\* mutex, and the report is returned.
RecordFailure ==
    /\ run_pc = "record"
    /\ runner' = [runner EXCEPT !.should_exit =
                        RecordShouldExit(@, SuiteReport_is_failure(report.value))]
    /\ heap' = [heap EXCEPT ![ContextEnv(Root)] = Dead]
    /\ run_pc' = "returned"
    /\ process' = [process EXCEPT !.completed = Append(@, SuiteFails)]
    /\ UNCHANGED <<logger, legacy, other, suite, panic_hook, report, pc, idx, reports, ret, calls, broadcasts,
                   steps, hook_calls, body_calls, seen,
                   returned_order>>

(***************************************************************************)
(* The visit of a context                                                  *)
(***************************************************************************)
\* TestSuiteVisitor<Context<T>>::visit, entry: enter_context is broadcast if
\* the context has a header.
EnterContext(c) ==
    /\ c \in Contexts
    /\ pc[c] = "enter"
    /\ calls' = BroadcastContext(calls, "enter_context",
                                 suite.context[c].header, None)
    /\ broadcasts' = IF suite.context[c].header = None
                     THEN broadcasts
                     ELSE Append(broadcasts,
                                 Event("enter_context",
                                       suite.context[c].header.value, None))
    /\ pc' = [pc EXCEPT ![c] = "before_all"]
    /\ idx' = [idx EXCEPT ![c] = 1]
    /\ IF suite.context[c].header = None
       THEN UNCHANGED logger
       ELSE LoggerObserve(Event("enter_context", suite.context[c].header.value, None))
    /\ UNCHANGED <<legacy, process, other, suite, runner, panic_hook, run_pc, report, heap, reports,
                   ret, steps, hook_calls, body_calls, seen,
                   returned_order>>

\* Runner::wrap_all, first loop: the next before_all hook is called on the
\* context's environment.
BeforeAll(c) ==
    /\ c \in Contexts
    /\ pc[c] = "before_all"
    /\ HooksLeft(suite.context[c].before_all, idx[c])
    /\ LET hook == suite.context[c].before_all[idx[c]]
       IN  /\ heap' = [heap EXCEPT ![ContextEnv(c)] = CallHook(hook, @, c)]
           /\ hook_calls' = Called(hook_calls, hook, c)
    /\ idx' = [idx EXCEPT ![c] = @ + 1]
    /\ UNCHANGED <<logger, legacy, process, other, suite, runner, panic_hook, run_pc, report, pc, reports, ret,
                   calls, broadcasts, steps, body_calls, seen,
                   returned_order>>

\* Runner::wrap_all calls the wrapped block: evaluate_blocks_parallel or
\* evaluate_blocks_serial starts, with room for one report per block.
EvaluateBlocks(c) ==
    /\ c \in Contexts
    /\ pc[c] = "before_all"
    /\ ~HooksLeft(suite.context[c].before_all, idx[c])
    /\ pc' = [pc EXCEPT ![c] = "blocks"]
    /\ reports' = [reports EXCEPT ![c] = [i \in 1..Len(BlocksOf(c)) |-> None]]
    /\ UNCHANGED <<logger, legacy, process, other, suite, runner, panic_hook, run_pc, report, idx, heap, ret,
                   calls, broadcasts, steps, hook_calls, body_calls, seen,
                   returned_order>>

\* A fan-out that hands out the blocks while the before_all hooks of the
\* context still run.
MayStartDuringBeforeAll(b) ==
    /\ pc[Parent(b)] \in {"before_all", "blocks"}
    /\ pc[b] = "idle"
    /\ \/ runner.configuration.parallel
       \/ \A i \in 1..(IndexOf(b) - 1) : pc[BlocksOf(Parent(b))[i]] = "done"

\* A fan-out that hands out the blocks of a context as soon as its visit is
\* called, before enter_context is broadcast.
MayStartBeforeEnter(b) ==
    /\ pc[Parent(b)] \in {"enter", "before_all", "blocks"}
    /\ pc[b] = "idle"
    /\ \/ runner.configuration.parallel
       \/ \A i \in 1..(IndexOf(b) - 1) : pc[BlocksOf(Parent(b))[i]] = "done"

\* A serial evaluation that takes the blocks of a context up in any order,
\* without waiting for the one before.
MayStartUnordered(b) ==
    /\ pc[Parent(b)] = "blocks"
    /\ pc[b] = "idle"

\* A schedule that takes a block up only once every other block of the
\* context has been evaluated.
MayStartLast(b) ==
    /\ pc[Parent(b)] = "blocks"
    /\ pc[b] = "idle"
    /\ \A i \in 1..Len(BlocksOf(Parent(b))) :
          i # IndexOf(b) => pc[BlocksOf(Parent(b))[i]] = "done"

\* Whether block b may be taken up now: par_iter hands the blocks of the
\* context to the workers in any order and lets them run side by side; iter
\* takes the next block when the one before has been evaluated.
MayStart(b) ==
    /\ pc[Parent(b)] = "blocks"
    /\ pc[b] = "idle"
    /\ \/ runner.configuration.parallel
       \/ \A i \in 1..(IndexOf(b) - 1) : pc[BlocksOf(Parent(b))[i]] = "done"

\* An evaluate_block that works on the context's environment itself.
EvaluateBlockEnvShared(b) == ContextEnv(Parent(b))

\* The environment evaluate_block hands to wrap_each and to the visit of
\* the block: its own clone.
EvaluateBlockEnv(b) == BlockEnv(b)

\* A wrap_each that takes the hooks of the suite's root context for every
\* block of the tree.
WrapEachContextRoot(b) == Root

\* The context evaluate_block hands to wrap_each: the one the block is a
\* block of.
WrapEachContext(b) == Parent(b)

\* A clone taken from the environment the visit of the context received,
\* as it was before the before_all hooks of the context ran.
EvaluateBlockCloneBeforeAll(b) ==
    LET NotBeforeAll(m) ==
            ~(m.hook.ctx = Parent(b) /\ m.hook.list = "before_all")
    IN  [live |-> TRUE,
         marks |-> SelectSeq(heap[ContextEnv(Parent(b))].marks, NotBeforeAll)]

\* The clone evaluate_block takes: a copy of the environment of the context,
\* as the before_all hooks of the context left it.
EvaluateBlockClone(b) == T_clone(heap[ContextEnv(Parent(b))])

\* Runner::evaluate_block, entry: the context's environment is cloned.
EvaluateBlock(b) ==
    /\ b \in Nodes \ {Root}
    /\ MayStart(b)
    /\ heap' = [heap EXCEPT ![BlockEnv(b)] = EvaluateBlockClone(b)]
    /\ pc' = [pc EXCEPT ![b] = "before_each"]
    /\ idx' = [idx EXCEPT ![b] = 1]
    /\ steps' = [steps EXCEPT ![b] = Append(@, Step("clone", 0))]
    /\ UNCHANGED <<logger, legacy, process, other, suite, runner, panic_hook, run_pc, report, reports, ret,
                   calls, broadcasts, hook_calls, body_calls, seen,
                   returned_order>>

\* Runner::wrap_each, first loop: the next before_each hook of the parent
\* context is called on the block's environment.
BeforeEach(b) ==
    /\ b \in Nodes \ {Root}
    /\ pc[b] = "before_each"
    /\ HooksLeft(suite.context[WrapEachContext(b)].before_each, idx[b])
    /\ LET hook == suite.context[WrapEachContext(b)].before_each[idx[b]]
       IN  /\ heap' = [heap EXCEPT ![EvaluateBlockEnv(b)] = CallHook(hook, @, b)]
           /\ hook_calls' = Called(hook_calls, hook, b)
    /\ steps' = [steps EXCEPT ![b] = Append(@, Step("before_each", idx[b]))]
    /\ idx' = [idx EXCEPT ![b] = @ + 1]
    /\ UNCHANGED <<logger, legacy, process, other, suite, runner, panic_hook, run_pc, report, pc, reports, ret,
                   calls, broadcasts, body_calls, seen,
                   returned_order>>

(***************************************************************************)
(* The visit of a block                                                    *)
(***************************************************************************)
\* The wrapped block of wrap_each for an example: TestSuiteVisitor<Block<T>>
\* dispatches to TestSuiteVisitor<Example<T>>::visit, which broadcasts
\* enter_example.
EnterExample(b) ==
    /\ b \in Examples
    /\ pc[b] = "before_each"
    /\ ~HooksLeft(suite.context[WrapEachContext(b)].before_each, idx[b])
    /\ calls' = Broadcast(calls, Event("enter_example", suite.context[b].header, None))
    /\ broadcasts' = Append(broadcasts,
                            Event("enter_example", suite.context[b].header, None))
    /\ pc' = [pc EXCEPT ![b] = "body"]
    /\ steps' = [steps EXCEPT ![b] = Append(@, Step("visit", 0))]
    /\ LoggerObserve(Event("enter_example", suite.context[b].header, None))
    /\ UNCHANGED <<legacy, process, other, suite, runner, panic_hook, run_pc, report, idx, heap,
                   reports, ret, hook_calls, body_calls, seen,
                   returned_order>>

\* TestSuiteVisitor<Example<T>>::visit: (example.function)(environment).
Body(b) ==
    /\ b \in Examples
    /\ pc[b] = "body"
    /\ ret' = [ret EXCEPT ![b] =
                    Some(example_internal(suite.context[b].function.value))]
    /\ body_calls' = [body_calls EXCEPT ![b] = @ + 1]
    /\ seen' = [seen EXCEPT ![b] = Some(heap[EvaluateBlockEnv(b)].marks)]
    /\ pc' = [pc EXCEPT ![b] = "exit"]
    /\ UNCHANGED <<logger, legacy, process, other, suite, runner, panic_hook, run_pc, report, idx, heap,
                   reports, calls, broadcasts, steps, hook_calls, returned_order>>

\* TestSuiteVisitor<Example<T>>::visit: the ExampleReport is built and
\* exit_example broadcast; the visit of the block wraps the report in
\* BlockReport::Example.
ExitExample(b) ==
    /\ b \in Examples
    /\ pc[b] = "exit"
    /\ LET r == ExampleReport(ret[b].value)
       IN  /\ calls' = Broadcast(calls, Event("exit_example",
                                              suite.context[b].header, Some(r)))
           /\ broadcasts' = Append(broadcasts,
                                   Event("exit_example",
                                         suite.context[b].header, Some(r)))
           /\ ret' = [ret EXCEPT ![b] =
                        Some(BlockReportExample(suite.context[b].header, r))]
    /\ pc' = [pc EXCEPT ![b] = "after_each"]
    /\ idx' = [idx EXCEPT ![b] = 1]
    /\ steps' = [steps EXCEPT ![b] = Append(@, Step("visited", 0))]
    /\ LoggerObserve(Event("exit_example", suite.context[b].header,
                          Some(ExampleReport(ret[b].value))))
    /\ UNCHANGED <<legacy, process, other, suite, runner, panic_hook, run_pc, report, heap, reports,
                   hook_calls, body_calls, seen,
                   returned_order>>

\* The wrapped block of wrap_each for a nested context:
\* TestSuiteVisitor<Block<T>>::visit visits the context on a clone of the
\* block's environment.
VisitBlockContext(b) ==
    /\ b \in Contexts \ {Root}
    /\ pc[b] = "before_each"
    /\ ~HooksLeft(suite.context[WrapEachContext(b)].before_each, idx[b])
    /\ heap' = [heap EXCEPT ![ContextEnv(b)] = T_clone(heap[EvaluateBlockEnv(b)])]
    /\ pc' = [pc EXCEPT ![b] = "enter"]
    /\ steps' = [steps EXCEPT ![b] = Append(@, Step("visit", 0))]
    /\ UNCHANGED <<logger, legacy, process, other, suite, runner, panic_hook, run_pc, report, idx, reports,
                   ret, calls, broadcasts, hook_calls, body_calls, seen,
                   returned_order>>

\* A collect that keeps the reports in the order in which they arrive.
CollectAtNextFree(collected, i) ==
    1 + Cardinality({j \in 1..Len(collected) : collected[j] # None})

\* Where the report of the block of index i goes in the reports collected so
\* far: collect keeps the order of the blocks.
CollectAt(collected, i) == i

\* A join that returns as soon as one block has been evaluated.
AnyEvaluated(c) == \E b \in BlockSet(c) : pc[b] = "done"

\* A join that gives up on the remaining blocks once a block has failed.
AllEvaluatedOrFailed(c) ==
    \/ \A b \in BlockSet(c) : pc[b] = "done"
    \/ \E b \in BlockSet(c) :
          pc[b] = "done" /\ BlockReport_is_failure(ret[b].value)

\* collect returns when the map has run over every block of the context.
AllEvaluated(c) == \A b \in BlockSet(c) : pc[b] = "done"

\* Runner::wrap_all: the wrapped block returns once every block has been
\* evaluated, with the collected Vec<BlockReport>.
Collect(c) ==
    /\ c \in Contexts
    /\ pc[c] = "blocks"
    /\ AllEvaluated(c)
    /\ pc' = [pc EXCEPT ![c] = "after_all"]
    /\ idx' = [idx EXCEPT ![c] = 1]
    /\ UNCHANGED <<logger, legacy, process, other, suite, runner, panic_hook, run_pc, report, heap, reports,
                   ret, calls, broadcasts, steps, hook_calls, body_calls, seen,
                   returned_order>>

\* Runner::wrap_all, second loop: the next after_all hook is called on the
\* context's environment.
AfterAll(c) ==
    /\ c \in Contexts
    /\ pc[c] = "after_all"
    /\ HooksLeft(suite.context[c].after_all, idx[c])
    /\ LET hook == suite.context[c].after_all[idx[c]]
       IN  /\ heap' = [heap EXCEPT ![ContextEnv(c)] = CallHook(hook, @, c)]
           /\ hook_calls' = Called(hook_calls, hook, c)
    /\ idx' = [idx EXCEPT ![c] = @ + 1]
    /\ UNCHANGED <<logger, legacy, process, other, suite, runner, panic_hook, run_pc, report, pc, reports, ret,
                   calls, broadcasts, steps, body_calls, seen,
                   returned_order>>

\* TestSuiteVisitor<Context<T>>::visit, exit: the ContextReport is built
\* from the collected reports and exit_context is broadcast if the context
\* has a header.  For a nested context the visit of the block wraps the
\* report in BlockReport::Context and drops the clone it visited.
ExitContext(c) ==
    /\ c \in Contexts
    /\ pc[c] = "after_all"
    /\ ~HooksLeft(suite.context[c].after_all, idx[c])
    /\ LET r == ContextReport([i \in 1..Len(reports[c]) |-> reports[c][i].value])
       IN  /\ calls' = BroadcastContext(calls, "exit_context",
                                        suite.context[c].header, Some(r))
           /\ broadcasts' = IF suite.context[c].header = None
                            THEN broadcasts
                            ELSE Append(broadcasts,
                                        Event("exit_context",
                                              suite.context[c].header.value,
                                              Some(r)))
           /\ ret' = [ret EXCEPT ![c] =
                        IF c = Root
                        THEN Some(r)
                        ELSE Some(BlockReportContext(suite.context[c].header, r))]
    /\ IF c = Root
       THEN /\ pc' = [pc EXCEPT ![c] = "done"]
            /\ UNCHANGED <<legacy, idx, heap, steps>>
       ELSE /\ pc' = [pc EXCEPT ![c] = "after_each"]
            /\ idx' = [idx EXCEPT ![c] = 1]
            /\ heap' = [heap EXCEPT ![ContextEnv(c)] = Dead]
            /\ steps' = [steps EXCEPT ![c] = Append(@, Step("visited", 0))]
    /\ IF suite.context[c].header = None
       THEN UNCHANGED logger
       ELSE LoggerObserve(Event("exit_context", suite.context[c].header.value,
                                Some(ContextReport([i \in 1..Len(reports[c]) |->
                                                       reports[c][i].value]))))
    /\ UNCHANGED <<legacy, process, other, suite, runner, panic_hook, run_pc, report, reports,
                   hook_calls, body_calls, seen,
                   returned_order>>

\* Runner::wrap_each, second loop: the next after_each hook of the parent
\* context is called on the block's environment.
AfterEach(b) ==
    /\ b \in Nodes \ {Root}
    /\ pc[b] = "after_each"
    /\ HooksLeft(suite.context[WrapEachContext(b)].after_each, idx[b])
    /\ LET hook == suite.context[WrapEachContext(b)].after_each[idx[b]]
       IN  /\ heap' = [heap EXCEPT ![EvaluateBlockEnv(b)] = CallHook(hook, @, b)]
           /\ hook_calls' = Called(hook_calls, hook, b)
    /\ steps' = [steps EXCEPT ![b] = Append(@, Step("after_each", idx[b]))]
    /\ idx' = [idx EXCEPT ![b] = @ + 1]
    /\ UNCHANGED <<logger, legacy, process, other, suite, runner, panic_hook, run_pc, report, pc, reports, ret,
                   calls, broadcasts, body_calls, seen,
                   returned_order>>

\* Runner::evaluate_block returns: the block's report takes its place among
\* the reports of the context and the block's environment is dropped.
ReturnBlock(b) ==
    /\ b \in Nodes \ {Root}
    /\ pc[b] = "after_each"
    /\ ~HooksLeft(suite.context[WrapEachContext(b)].after_each, idx[b])
    /\ LET collected == reports[Parent(b)]
       IN  reports' = [reports EXCEPT ![Parent(b)] =
                        [collected EXCEPT ![CollectAt(collected, IndexOf(b))] = ret[b]]]
    /\ heap' = [heap EXCEPT ![BlockEnv(b)] = Dead]
    /\ pc' = [pc EXCEPT ![b] = "done"]
    /\ steps' = [steps EXCEPT ![b] = Append(@, Step("return", 0))]
    /\ returned_order' = Append(returned_order, b)
    /\ UNCHANGED <<logger, legacy, process, other, suite, runner, panic_hook, run_pc, report, idx, ret, calls, broadcasts,
                   hook_calls, body_calls, seen>>

Next ==
    \/ Run
    \/ EnterSuite
    \/ \E c \in Nodes : EnterContext(c)
    \/ \E c \in Nodes : BeforeAll(c)
    \/ \E c \in Nodes : EvaluateBlocks(c)
    \/ \E b \in Nodes : EvaluateBlock(b)
    \/ \E b \in Nodes : BeforeEach(b)
    \/ \E b \in Nodes : EnterExample(b)
    \/ \E b \in Nodes : Body(b)
    \/ \E b \in Nodes : ExitExample(b)
    \/ \E b \in Nodes : VisitBlockContext(b)
    \/ \E c \in Nodes : Collect(c)
    \/ \E c \in Nodes : AfterAll(c)
    \/ \E c \in Nodes : ExitContext(c)
    \/ \E b \in Nodes : AfterEach(b)
    \/ \E b \in Nodes : ReturnBlock(b)
    \/ ExitSuite
    \/ CleanAfterRun
    \/ RecordFailure

Spec == Init /\ [][Next]_vars

\* The same runs, under which the properties of what the observers are told
\* are checked on their own.
SpecObservers == Init /\ [][Next]_vars

\* The same runs, under which the properties of the reports and of the
\* environments handed down the tree are checked on their own.
SpecTree == Init /\ [][Next]_vars

\* The same run on threads that keep running: the thread that called
\* Runner::run takes its next step and, in parallel mode, the workers of
\* the pool take up and carry on the blocks handed to them, so that a step
\* that stays possible is taken.
\* The suites are those of every shape and number of hooks whose bodies
\* return or panic.
FairSuites ==
    {s \in Suites :
        \A n \in 1..Len(s.context) :
            s.context[n].kind = "Example" =>
                s.context[n].function.value
                    \in {Returns("unit", "()"), Panics("&str", "boom")}}

InitFair == InitOf(FairSuites) /\ legacy = LegacyNone /\ logger = LoggerNone

SpecFair == InitFair /\ [][Next]_vars /\ WF_vars(Next)

(***************************************************************************)
(* A run with a logger among the observers: a Logger or a SerialLogger,    *)
(* in serial and in parallel mode, on every shape with one hook per list   *)
(***************************************************************************)
LoggerSuites ==
    {s \in FairSuites : Len(s.context[1].before_all) = 1}

InitLogger ==
    /\ InitOf(LoggerSuites)
    /\ legacy = LegacyNone
    /\ logger \in {LoggerNew(kind) : kind \in {"Logger", "SerialLogger"}}

SpecLogger == InitLogger /\ [][Next]_vars

(***************************************************************************)
(* The conversions into ExampleResult, applied by a run to what the bodies *)
(* return: a named context with one example next to an example, one hook   *)
(* in each list, each body returning (), a bool or a Result.               *)
(***************************************************************************)
IntoBodies ==
    {Returns("unit", "()"), Returns("bool", "true"), Returns("bool", "false"),
     Returns("Result", "Ok")}
    \cup {ReturnsErr(error) : error \in ErrorValues}

IntoSuites ==
    {suite_internal("suite", Shapes[2], 1, b) :
        b \in [ExamplesOf(Shapes[2]) -> IntoBodies]}

InitInto == InitOf(IntoSuites) /\ legacy = LegacyNone /\ logger = LoggerNone

SpecInto == InitInto /\ [][Next]_vars

(***************************************************************************)
(* The life of a Runner: several runs, on one thread and on another, a     *)
(* run that unwinds, and the drop of the Runner                            *)
(***************************************************************************)
\* The suites given to the runs of one Runner: a named context with one
\* example next to an example, one hook in each list, the example of the
\* context passing or panicking.
RunnerSuites ==
    {suite_internal("suite", Shapes[2], 1,
        [n \in ExamplesOf(Shapes[2]) |->
            IF n = 3 THEN b ELSE Returns("unit", "()")]) :
        b \in {Returns("unit", "()"), Panics("&str", "boom")}}

\* Runner::new with any configuration, in a process whose panic hook is the
\* default one or one the program has set.
InitRunner ==
    /\ suite \in RunnerSuites
    /\ runner \in {[configuration |-> [parallel |-> p, exit_on_failure |-> x],
                    observers |-> [o \in 1..NumObservers |-> o],
                    should_exit |-> FALSE] : p \in BOOLEAN, x \in BOOLEAN}
    /\ panic_hook \in {"default", "custom"}
    /\ run_pc = "ready"
    /\ report = None
    /\ pc = [n \in Nodes |-> "idle"]
    /\ idx = [n \in Nodes |-> 0]
    /\ heap = HeapNew(suite)
    /\ reports = [n \in Nodes |-> <<>>]
    /\ ret = [n \in Nodes |-> None]
    /\ calls = <<>>
    /\ broadcasts = <<>>
    /\ steps = [n \in Nodes |-> <<>>]
    /\ hook_calls = EmptyBag
    /\ returned_order = <<>>
    /\ body_calls = [n \in Nodes |-> 0]
    /\ seen = [n \in Nodes |-> None]
    /\ process = ProcessNew
    /\ other = OtherIdle
    /\ legacy = LegacyNone
    /\ logger = LoggerNone

\* The caller, after a run has returned or unwound, is about to call
\* Runner::run on the same Runner, with the same suite or with another suite
\* it builds: the locals of the run before are gone.
RunAgain ==
    /\ run_pc \in {"returned", "unwound"}
    /\ process.state = "alive"
    /\ RunsLeft
    /\ suite' \in RunnerSuites
    /\ run_pc' = "ready"
    /\ report' = None
    /\ pc' = [n \in 1..Len(suite'.context) |-> "idle"]
    /\ idx' = [n \in 1..Len(suite'.context) |-> 0]
    /\ heap' = IF suite' = suite
                THEN [HeapNew(suite) EXCEPT ![SuiteEnv] = heap[SuiteEnv]]
                ELSE HeapNew(suite')
    /\ reports' = [n \in 1..Len(suite'.context) |-> <<>>]
    /\ ret' = [n \in 1..Len(suite'.context) |-> None]
    /\ calls' = <<>>
    /\ broadcasts' = <<>>
    /\ steps' = [n \in 1..Len(suite'.context) |-> <<>>]
    /\ hook_calls' = EmptyBag
    /\ returned_order' = <<>>
    /\ body_calls' = [n \in 1..Len(suite'.context) |-> 0]
    /\ seen' = [n \in 1..Len(suite'.context) |-> None]
    /\ UNCHANGED <<logger, legacy, runner, panic_hook, process, other>>

\* Node n stands before a call of a hook.
BeforeHookCall(n) ==
    \/ /\ n \in Contexts
       /\ pc[n] \in {"before_all", "after_all"}
       /\ HooksLeft(suite.context[n][pc[n]], idx[n])
    \/ /\ n # Root
       /\ pc[n] \in {"before_each", "after_each"}
       /\ HooksLeft(suite.context[Parent(n)][pc[n]], idx[n])

\* A Runner::run that catches the panic of a hook and goes on with
\* clean_after_run and the update of should_exit.
HookPanicCaughtByRun == "clean"

\* Where the panic of a hook leaves Runner::run: neither wrap_all, nor
\* wrap_each, nor a visit, nor run catches it, so run is unwound.
HookPanicOutcome == "unwound"

\* A hook panics: wrap_all, wrap_each, the visits and Runner::run catch
\* nothing.  In a serial run the panic unwinds them all at once; in a
\* parallel run it stops the evaluation the hook was called for, while the
\* workers evaluating other blocks may go on until the panic is resumed on
\* the thread that called run.
HookPanics ==
    /\ run_pc = "in_suite"
    /\ \E n \in Nodes :
          /\ BeforeHookCall(n)
          /\ IF runner.configuration.parallel
             THEN /\ run_pc' = "panicking"
                  /\ pc' = [pc EXCEPT ![n] = "panicked"]
                  /\ UNCHANGED heap
             ELSE /\ run_pc' = HookPanicOutcome
                  /\ pc' = [m \in Nodes |-> "unwound"]
                  /\ heap' = [HeapNew(suite) EXCEPT ![SuiteEnv] = heap[SuiteEnv]]
    /\ UNCHANGED <<logger, legacy, suite, runner, panic_hook, report, idx, reports, ret, calls, broadcasts,
                   steps, hook_calls, body_calls, returned_order, seen,
                   process, other>>

\* The panic of a hook of a parallel run reaches Runner::run and unwinds it:
\* the locals of the run are dropped and neither exit_suite, nor
\* clean_after_run, nor the update of should_exit is reached.
Unwind ==
    /\ run_pc = "panicking"
    /\ run_pc' = HookPanicOutcome
    /\ pc' = [m \in Nodes |-> "unwound"]
    /\ heap' = [HeapNew(suite) EXCEPT ![SuiteEnv] = heap[SuiteEnv]]
    /\ UNCHANGED <<logger, legacy, suite, runner, panic_hook, report, idx, reports, ret, calls, broadcasts,
                   steps, hook_calls, body_calls, returned_order, seen,
                   process, other>>

\* Runner::run called on another thread with a suite of its own:
\* prepare_before_run.
OtherRun ==
    /\ other.pc \in {"idle", "returned"}
    /\ RunsLeft
    /\ process.state = "alive"
    /\ other' = [pc |-> "visit", fails |-> FALSE, runs |-> other.runs + 1]
    /\ panic_hook' = prepare_before_run
    /\ UNCHANGED <<logger, legacy, suite, runner, run_pc, report, pc, idx, heap, reports, ret,
                   calls, broadcasts, steps, hook_calls, body_calls, returned_order, seen,
                   process>>

\* The visit of the other thread's suite, which works on that run's
\* locals; some body of that suite fails, or none.
OtherVisit ==
    /\ other.pc = "visit"
    /\ \E f \in BOOLEAN : other' = [other EXCEPT !.pc = "clean", !.fails = f]
    /\ UNCHANGED <<logger, legacy, suite, runner, panic_hook, run_pc, report, pc, idx, heap,
                   reports, ret, calls, broadcasts, steps, hook_calls, body_calls,
                   returned_order, seen, process>>

\* clean_after_run on the other thread.
OtherClean ==
    /\ other.pc = "clean"
    /\ panic_hook' = clean_after_run
    /\ other' = [other EXCEPT !.pc = "record"]
    /\ UNCHANGED <<logger, legacy, suite, runner, run_pc, report, pc, idx, heap, reports, ret,
                   calls, broadcasts, steps, hook_calls, body_calls, returned_order, seen,
                   process>>

\* should_exit |= report.is_failure() on the other thread, under the lock,
\* and the return of that run.
OtherRecord ==
    /\ other.pc = "record"
    /\ runner' = [runner EXCEPT !.should_exit = RecordShouldExit(@, other.fails)]
    /\ process' = [process EXCEPT !.completed = Append(@, other.fails)]
    /\ other' = [other EXCEPT !.pc = "returned"]
    /\ UNCHANGED <<logger, legacy, suite, panic_hook, run_pc, report, pc, idx, heap, reports,
                   ret, calls, broadcasts, steps, hook_calls, body_calls, returned_order,
                   seen>>

\* A drop that exits on a recorded failure whatever the configuration.
ShouldAbortOnFailure(exit_on_failure, should_exit) == should_exit

\* Drop for Runner: the condition under which it calls process::exit.
ShouldAbort(exit_on_failure, should_exit) == exit_on_failure /\ should_exit

\* Drop for Runner, when no run borrows the Runner any more: the process
\* exits with ExitCode or the drop returns.
Drop ==
    /\ process.state = "alive"
    /\ run_pc \in {"ready", "returned", "unwound"}
    /\ other.pc \in {"idle", "returned"}
    /\ process' =
          IF ShouldAbort(runner.configuration.exit_on_failure, runner.should_exit)
          THEN [process EXCEPT !.state = "exited", !.exit_code = Some(ExitCode)]
          ELSE [process EXCEPT !.state = "dropped"]
    /\ UNCHANGED <<logger, legacy, suite, runner, panic_hook, run_pc, report, pc, idx, heap,
                   reports, ret, calls, broadcasts, steps, hook_calls, body_calls,
                   returned_order, seen, other>>

NextRunner ==
    \/ Next
    \/ RunAgain
    \/ HookPanics
    \/ Unwind
    \/ OtherRun
    \/ OtherVisit
    \/ OtherClean
    \/ OtherRecord
    \/ Drop

SpecRunner == InitRunner /\ [][NextRunner]_vars

(***************************************************************************)
(* Runner::broadcast on its own: a Runner built with any list of           *)
(* observers, none included, and broadcast called on it with any handler,  *)
(* as the tests of the runner do.                                          *)
(***************************************************************************)
MaxBroadcasts == 3

\* The lists of observers Runner::new is given: up to NumObservers observers,
\* registered in any order.
ObserverLists ==
    {l \in UNION {[1..k -> 1..NumObservers] : k \in 0..NumObservers} :
        \A i, j \in 1..Len(l) : l[i] = l[j] => i = j}

\* The calls a handler given to broadcast makes on the observer.
BroadcastEvents ==
    {Event("enter_suite", "suite", None),
     Event("enter_context", "adding", None),
     Event("enter_example", "len", None)}

InitBroadcast ==
    /\ suite \in {suite_internal("suite", Shapes[4], 0, b) :
                    b \in BodyAssignments(Shapes[4])}
    /\ runner \in {[configuration |-> [parallel |-> TRUE, exit_on_failure |-> TRUE],
                    observers |-> l,
                    should_exit |-> FALSE] : l \in ObserverLists}
    /\ panic_hook = "default"
    /\ run_pc = "ready"
    /\ report = None
    /\ pc = [n \in Nodes |-> "idle"]
    /\ idx = [n \in Nodes |-> 0]
    /\ heap = HeapNew(suite)
    /\ reports = [n \in Nodes |-> <<>>]
    /\ ret = [n \in Nodes |-> None]
    /\ calls = <<>>
    /\ broadcasts = <<>>
    /\ steps = [n \in Nodes |-> <<>>]
    /\ hook_calls = EmptyBag
    /\ returned_order = <<>>
    /\ body_calls = [n \in Nodes |-> 0]
    /\ seen = [n \in Nodes |-> None]
    /\ process = ProcessNew
    /\ other = OtherIdle
    /\ legacy = LegacyNone
    /\ logger = LoggerNone

\* runner.broadcast(handler)
BroadcastEvent ==
    /\ Len(broadcasts) < MaxBroadcasts
    /\ \E event \in BroadcastEvents :
          /\ calls' = Broadcast(calls, event)
          /\ broadcasts' = Append(broadcasts, event)
    /\ UNCHANGED <<logger, legacy, suite, runner, panic_hook, run_pc, report, pc, idx, heap,
                   reports, ret, steps, hook_calls, body_calls,
                   returned_order, seen, process, other>>

NextBroadcast == BroadcastEvent

SpecBroadcast == InitBroadcast /\ [][NextBroadcast]_vars

(***************************************************************************)
(* The Report trait on its own: example reports built with any             *)
(* ExampleResult, Ignored included, and pushed on the reports of a context *)
(***************************************************************************)
MaxReports == 3

\* The results an ExampleReport may be built with.
ExampleResults == {Success, Failure(None), Failure(Some("boom")), Ignored}

\* SerialLogger::report_flag, without the colour.
report_flag(is_success) == IF is_success THEN "ok" ELSE "FAILED"

InitReport ==
    /\ InitBroadcast
    /\ runner.observers = <<>>

\* ExampleReport::new(result, duration), wrapped in BlockReport::Example and
\* pushed on the reports of the root context.
NewExampleReport ==
    /\ Len(reports[Root]) < MaxReports
    /\ \E result \in ExampleResults : \E header \in {"len", "empty"} :
          reports' = [reports EXCEPT ![Root] =
                        Append(@, Some(BlockReportExample(header,
                                                          ExampleReport(result))))]
    /\ UNCHANGED <<logger, legacy, suite, runner, panic_hook, run_pc, report, pc, idx, heap,
                   ret, calls, broadcasts, steps, hook_calls, body_calls,
                   returned_order, seen, process, other>>

NextReport == NewExampleReport

SpecReport == InitReport /\ [][NextReport]_vars

(***************************************************************************)
(* The Runner of src/runner.rs: a tree of describes and tests built by     *)
(* describe, run by Runner::run, its outcome read with Runner::result.     *)
(***************************************************************************)
\* TestResult = Result<(), ()>
TestOk == [tag |-> "Ok"]

TestErr == [tag |-> "Err"]

\* TestReport::default()
TestReportDefault == [total_tests |-> 0, success_count |-> 0, error_count |-> 0]

\* RunnerResult = Result<TestReport, TestReport>
RunnerOk(test_report) == [tag |-> "Ok", report |-> test_report]

RunnerErr(test_report) == [tag |-> "Err", report |-> test_report]

\* What a test function returns in its Box<Any>: a Result<(), ()>, the unit
\* value, a bool, or a value of any other type; or it panics.
TestFunctions ==
    {Returns("Result<(), ()>", "Ok"), Returns("Result<(), ()>", "Err"),
     Returns("unit", "()"), Returns("bool", "true"), Returns("bool", "false"),
     Returns("i32", "42"), Panics("&str", "boom")}

\* The test functions any test may have; one test of a tree may have any of
\* TestFunctions.
CoreTestFunctions ==
    {Returns("Result<(), ()>", "Ok"), Returns("Result<(), ()>", "Err"),
     Panics("&str", "boom")}

\* Runner::normalize_result
normalize_result(res) ==
    IF res.type = "Result<(), ()>"
    THEN (IF res.value = "Ok" THEN TestOk ELSE TestErr)
    ELSE IF res.type = "unit"
    THEN TestOk
    ELSE IF res.type = "bool"
    THEN (IF res.value = "true" THEN TestOk ELSE TestErr)
    ELSE TestErr

\* Runner::run_test: catch_unwind(test_function), a panic being a failure.
run_test(function) ==
    IF function.panics THEN TestErr ELSE normalize_result(function)

\* Testable::Describe(name, context) and Testable::Test(name, function), as
\* nodes of an arena; tests holds the children of a describe in the order
\* of their declaration.
LegacyDescribe(name, tests) == [kind |-> "Describe", name |-> name, tests |-> tests]

LegacyTest(name) == [kind |-> "Test", name |-> name, tests |-> <<>>]

LegacyShapes ==
    << \* three tests
       << LegacyDescribe("a root", <<2, 3, 4>>),
          LegacyTest("first"), LegacyTest("second"), LegacyTest("third") >>,
       \* a describe with a test, followed by a test
       << LegacyDescribe("a root", <<2, 4>>),
          LegacyDescribe("first describe", <<3>>), LegacyTest("first run"),
          LegacyTest("second run") >>,
       \* a test followed by a describe in a describe
       << LegacyDescribe("a root", <<2, 3>>),
          LegacyTest("first run"),
          LegacyDescribe("third describe", <<4>>),
          LegacyDescribe("fourth describe", <<5>>), LegacyTest("third run") >>,
       \* an empty describe
       << LegacyDescribe("root, no hook", <<2>>),
          LegacyDescribe("this has a hook", <<>>) >>,
       \* no test at all
       << LegacyDescribe("empty but should run anyway", <<>>) >> >>

LegacyTestsOf(shape) == {n \in 1..Len(shape) : shape[n].kind = "Test"}

LegacyAssignments(shape) ==
    {f \in [LegacyTestsOf(shape) -> TestFunctions] :
        Cardinality({n \in LegacyTestsOf(shape) : f[n] \notin CoreTestFunctions}) <= 1}

\* describe(name, body): the tree the body builds, every describe having h
\* before_each and h after_each functions.
LegacyTrees ==
    UNION { { [n \in 1..Len(LegacyShapes[s]) |->
                 [kind |-> LegacyShapes[s][n].kind,
                  name |-> LegacyShapes[s][n].name,
                  tests |-> LegacyShapes[s][n].tests,
                  before_each |-> IF LegacyShapes[s][n].kind = "Describe" THEN h ELSE 0,
                  after_each |-> IF LegacyShapes[s][n].kind = "Describe" THEN h ELSE 0,
                  function |-> IF LegacyShapes[s][n].kind = "Test"
                               THEN Some(f[n]) ELSE None]] :
              h \in 0..MaxHooks, f \in LegacyAssignments(LegacyShapes[s]) } :
            s \in 1..Len(LegacyShapes) }

\* Runner::new(context), with one event handler added; no call of run is
\* under way.  frames holds the calls of run_and_recurse under way, the
\* innermost last; counts is the TestReport local to run; befores, afters
\* and ran count the calls of the functions of the tree.
LegacyRunner(tree) ==
    [pc |-> "new", describe |-> tree, report |-> None, events |-> <<>>,
     frames |-> <<>>, counts |-> TestReportDefault,
     befores |-> 0, afters |-> 0,
     ran |-> [n \in 1..Len(tree) |-> 0]]

\* The variables of the Runner of src/runner/mod.rs.
ModernVars ==
    <<suite, runner, panic_hook, run_pc, report, pc, idx, heap, reports, ret,
      calls, steps, hook_calls, body_calls, returned_order, seen, process,
      other, broadcasts, logger>>

InitLegacy ==
    /\ InitOf({suite_internal("suite", Shapes[4], 0, b) :
                 b \in BodyAssignments(Shapes[4])})
    /\ legacy \in {LegacyRunner(tree) : tree \in LegacyTrees}
    /\ logger = LoggerNone

\* A broadcast that puts the event before those already sent.
BroadcastLegacyFirst(events, event) == <<event>> \o events

\* Handlers::broadcast: the handler is triggered with the event.
BroadcastLegacy(events, event) == Append(events, event)

\* A call of run_and_recurse for the describe ctx: the local result, the
\* position of the loop over ctx.tests, where the body of the loop stands,
\* and the result of the testable at hand.
Frame(ctx) == [ctx |-> ctx, i |-> 1, result |-> TestOk, at |-> "before",
               test_res |-> None]

Top == legacy.frames[Len(legacy.frames)]

\* The testable the loop of the innermost run_and_recurse stands at.
Testable == legacy.describe[Top.ctx].tests[Top.i]

LoopEnded == Top.i > Len(legacy.describe[Top.ctx].tests)

SetTop(frame) == [legacy.frames EXCEPT ![Len(legacy.frames)] = frame]

\* Runner::run, up to the call of run_and_recurse for self.describe.
LegacyRun ==
    /\ legacy.pc = "new"
    /\ legacy' = [legacy EXCEPT
                    !.pc = "running",
                    !.events = BroadcastLegacy(@, [event |-> "StartRunner"]),
                    !.counts = TestReportDefault,
                    !.frames = <<Frame(1)>>]
    /\ UNCHANGED ModernVars

\* run_and_recurse, the loop body: the before_each functions of the describe
\* are called.
RunAndRecurseBefore ==
    /\ legacy.pc = "running"
    /\ Top.at = "before"
    /\ ~LoopEnded
    /\ legacy' = [legacy EXCEPT
                    !.befores = @ + legacy.describe[Top.ctx].before_each,
                    !.frames = SetTop([Top EXCEPT !.at = "testable"])]
    /\ UNCHANGED ModernVars

\* run_test, first half: StartTest is broadcast.
RunTestStart ==
    /\ legacy.pc = "running"
    /\ Top.at = "testable"
    /\ legacy.describe[Testable].kind = "Test"
    /\ legacy' = [legacy EXCEPT
                    !.events = BroadcastLegacy(@,
                        [event |-> "StartTest",
                         name |-> legacy.describe[Testable].name]),
                    !.frames = SetTop([Top EXCEPT !.at = "test"])]
    /\ UNCHANGED ModernVars

\* run_test, second half: the test function is called under catch_unwind,
\* its result normalized and broadcast with EndTest.
RunTestEnd ==
    /\ legacy.pc = "running"
    /\ Top.at = "test"
    /\ LET res == run_test(legacy.describe[Testable].function.value)
       IN  legacy' = [legacy EXCEPT
                        !.ran[Testable] = @ + 1,
                        !.events = BroadcastLegacy(@,
                            [event |-> "EndTest", result |-> res]),
                        !.frames = SetTop([Top EXCEPT !.at = "after",
                                                      !.test_res = Some(res)])]
    /\ UNCHANGED ModernVars

\* run_and_recurse at a Testable::Describe: StartDescribe is broadcast and
\* run_and_recurse called for the describe.
RunAndRecurseDescribe ==
    /\ legacy.pc = "running"
    /\ Top.at = "testable"
    /\ legacy.describe[Testable].kind = "Describe"
    /\ legacy' = [legacy EXCEPT
                    !.events = BroadcastLegacy(@,
                        [event |-> "StartDescribe",
                         name |-> legacy.describe[Testable].name]),
                    !.frames = Append(SetTop([Top EXCEPT !.at = "describe"]),
                                      Frame(Testable))]
    /\ UNCHANGED ModernVars

\* run_and_recurse returns its result to the run_and_recurse that called it,
\* which broadcasts EndDescribe.
RunAndRecurseReturn ==
    /\ legacy.pc = "running"
    /\ Len(legacy.frames) > 1
    /\ Top.at = "before"
    /\ LoopEnded
    /\ LET caller == legacy.frames[Len(legacy.frames) - 1]
       IN  legacy' = [legacy EXCEPT
                        !.events = BroadcastLegacy(@, [event |-> "EndDescribe"]),
                        !.frames =
                            Append(SubSeq(legacy.frames, 1, Len(legacy.frames) - 2),
                                   [caller EXCEPT !.at = "after",
                                                  !.test_res = Some(Top.result)])]
    /\ UNCHANGED ModernVars

\* A loop that keeps the result of the last testable.
NextResultLast(result, test_res) == test_res

\* run_and_recurse: "result = match result { Ok(()) => test_res, old => old }"
NextResult(result, test_res) == IF result = TestOk THEN test_res ELSE result

\* run_and_recurse: the counters after one more testable, result being the
\* local result before this testable: success_count += 1 if it is Ok(()),
\* error_count += 1 otherwise; total_tests += 1.
CountTestable(counts, result) ==
    [total_tests |-> counts.total_tests + 1,
     success_count |-> counts.success_count + (IF result = TestOk THEN 1 ELSE 0),
     error_count |-> counts.error_count + (IF result = TestOk THEN 0 ELSE 1)]

\* run_and_recurse, end of the loop body: the after_each functions of the
\* describe are called, the result and the counters updated, and the loop
\* goes on to the next testable.
RunAndRecurseCount ==
    /\ legacy.pc = "running"
    /\ Top.at = "after"
    /\ legacy' = [legacy EXCEPT
                    !.afters = @ + legacy.describe[Top.ctx].after_each,
                    !.counts = CountTestable(@, Top.result),
                    !.frames = SetTop([Top EXCEPT
                                        !.result = NextResult(@, Top.test_res.value),
                                        !.i = @ + 1,
                                        !.at = "before",
                                        !.test_res = None])]
    /\ UNCHANGED ModernVars

\* Runner::run: result.and(Ok(report)).or_else(|_| Err(report))
RunResult(result, counts) ==
    IF result = TestOk THEN RunnerOk(counts) ELSE RunnerErr(counts)

\* Runner::run, after run_and_recurse has returned: the report is stored and
\* FinishedRunner broadcast.
LegacyRunFinish ==
    /\ legacy.pc = "running"
    /\ Len(legacy.frames) = 1
    /\ Top.at = "before"
    /\ LoopEnded
    /\ LET result == RunResult(Top.result, legacy.counts)
       IN  legacy' = [legacy EXCEPT
                        !.pc = "finished",
                        !.report = Some(result),
                        !.events = BroadcastLegacy(@,
                            [event |-> "FinishedRunner", result |-> result]),
                        !.frames = <<>>]
    /\ UNCHANGED ModernVars

\* Runner::result
LegacyResult ==
    IF legacy.report = None THEN RunnerOk(TestReportDefault) ELSE legacy.report.value

NextLegacy ==
    \/ LegacyRun
    \/ RunAndRecurseBefore
    \/ RunTestStart
    \/ RunTestEnd
    \/ RunAndRecurseDescribe
    \/ RunAndRecurseReturn
    \/ RunAndRecurseCount
    \/ LegacyRunFinish

SpecLegacy == InitLegacy /\ [][NextLegacy]_vars

(***************************************************************************)
(* Properties                                                              *)
(***************************************************************************)
IsPrefix(s, t) == Len(s) <= Len(t) /\ \A i \in 1..Len(s) : s[i] = t[i]

\* The marks of an environment left by hooks called by the evaluation of
\* node on.
MarksOn(environment, on) ==
    LET Test(m) == m.on = on IN SelectSeq(environment.marks, Test)

\* The marks of an environment left by the hooks of one list of context c.
MarksOfList(environment, c, list) ==
    LET Test(m) == m.hook.ctx = c /\ m.hook.list = list
    IN  SelectSeq(environment.marks, Test)

\* The marks the hooks list[1..k] leave when called in that order by node on.
MarksOf(list, k, on) == [i \in 1..k |-> [hook |-> list[i], on |-> on]]

\* The steps of evaluate_block for block b, in the order of the code: the
\* clone, the before_each hooks of the context in registration order, the
\* visit of the block, the after_each hooks in registration order.
ExpectedSteps(b) ==
    LET c == suite.context[Parent(b)]
    IN  <<Step("clone", 0)>>
        \o [i \in 1..Len(c.before_each) |-> Step("before_each", i)]
        \o <<Step("visit", 0), Step("visited", 0)>>
        \o [i \in 1..Len(c.after_each) |-> Step("after_each", i)]
        \o <<Step("return", 0)>>

\* The each-hooks of the context of block b that the steps taken so far have
\* called, in the order of the steps.
HooksOfSteps(b) ==
    LET c == suite.context[Parent(b)]
        IsHook(st) == st.step \in {"before_each", "after_each"}
        called == SelectSeq(steps[b], IsHook)
    IN  [k \in 1..Len(called) |->
            [hook |-> c[called[k].step][called[k].i], on |-> b]]

Evaluating(b) == pc[b] \notin {"idle", "done"}

\* C1: for each block of a context, under every interleaving of its
\* siblings, the steps of its evaluation come in the fixed order clone,
\* before_each hooks in registration order, visit of the block, after_each
\* hooks in registration order; and while the block is evaluated its own
\* environment is the clone of the context's environment followed by exactly
\* the each-hooks called so far, in that order.
C1_BlockStepOrder ==
    \A b \in Nodes \ {Root} :
        /\ IsPrefix(steps[b], ExpectedSteps(b))
        /\ Evaluating(b) =>
              /\ heap[BlockEnv(b)].live
              /\ heap[BlockEnv(b)].marks =
                    heap[ContextEnv(Parent(b))].marks \o HooksOfSteps(b)

\* A block between its last after_each hook and its return, with MaxHooks
\* hooks before and after, while a sibling is being evaluated in parallel.
C1_Witness ==
    \E b \in Nodes \ {Root} :
        /\ runner.configuration.parallel
        /\ Len(suite.context[Parent(b)].before_each) = MaxHooks
        /\ Evaluating(b)
        /\ Len(steps[b]) = Len(ExpectedSteps(b)) - 1
        /\ \E s \in BlockSet(Parent(b)) \ {b} : Evaluating(s) /\ steps[s] # <<>>

\* C2: in every visit of a context, in both modes, the before_all hooks run
\* in registration order on the context's environment, and all of them have
\* run, once each, before the environment is cloned for any block: the clone
\* of every block carries the marks of all of them, in registration order.
C2_BeforeAllBeforeBlocks ==
    \A c \in Contexts :
        /\ pc[c] = "before_all" =>
              MarksOfList(heap[ContextEnv(c)], c, "before_all") =
                  MarksOf(suite.context[c].before_all, idx[c] - 1, c)
        /\ \A b \in BlockSet(c) :
              steps[b] # <<>> =>
                 /\ \A i \in 1..Len(suite.context[c].before_all) :
                       CopiesIn([hook |-> suite.context[c].before_all[i], on |-> c],
                                hook_calls) = 1
                 /\ Evaluating(b) =>
                       MarksOfList(heap[BlockEnv(b)], c, "before_all") =
                           MarksOf(suite.context[c].before_all,
                                   Len(suite.context[c].before_all), c)

\* A nested context with MaxHooks before_all hooks, a block of which has just
\* been cloned.
C2_Witness ==
    \E c \in Contexts \ {Root} : \E b \in BlockSet(c) :
        /\ Len(suite.context[c].before_all) = MaxHooks
        /\ steps[b] = <<Step("clone", 0)>>
        /\ Len(MarksOfList(heap[BlockEnv(b)], c, "before_all")) = MaxHooks

AfterAllStarted(c) ==
    \/ pc[c] = "after_all"
    \/ ret[c] # None
    \/ \E i \in 1..Len(suite.context[c].after_all) :
          CopiesIn([hook |-> suite.context[c].after_all[i], on |-> c], hook_calls) > 0

\* C3: in parallel mode, under every interleaving, once the after_all phase
\* of a context has begun every block below it has finished, after_each
\* hooks included; the ContextReport exists only when every after_all hook
\* has run; and the after_all hooks run in registration order.
C3_AfterAllAfterBlocks ==
    runner.configuration.parallel =>
        \A c \in Contexts :
            /\ AfterAllStarted(c) =>
                  \A d \in Descendants(c) :
                      pc[d] = "done" /\ steps[d] = ExpectedSteps(d)
            /\ ret[c] # None =>
                  \A i \in 1..Len(suite.context[c].after_all) :
                      CopiesIn([hook |-> suite.context[c].after_all[i], on |-> c],
                               hook_calls) = 1
            /\ pc[c] = "after_all" =>
                  MarksOfList(heap[ContextEnv(c)], c, "after_all") =
                      MarksOf(suite.context[c].after_all, idx[c] - 1, c)

\* A parallel run in which the second block of a context returned before the
\* first and the report of the context has been built after MaxHooks
\* after_all hooks.
C3_Witness ==
    /\ runner.configuration.parallel
    /\ \E c \in Contexts :
        /\ ret[c] # None
        /\ Len(suite.context[c].after_all) = MaxHooks
        /\ Len(BlocksOf(c)) >= 2
        /\ \E i, j \in 1..Len(returned_order) :
              /\ i < j
              /\ returned_order[i] = BlocksOf(c)[2]
              /\ returned_order[j] = BlocksOf(c)[1]

\* The executions of hooks a run makes: each before_all and after_all hook
\* for its context, each before_each and after_each hook for each block of
\* its context.
HookKeys ==
    UNION { {[hook |-> suite.context[c][l][i], on |-> c] :
                l \in {"before_all", "after_all"},
                i \in 1..Len(suite.context[c].before_all)}
            \cup
            {[hook |-> suite.context[c][l][i], on |-> b] :
                l \in {"before_each", "after_each"},
                i \in 1..Len(suite.context[c].before_each),
                b \in BlockSet(c)} :
            c \in Contexts }

\* The execution k is one of HookKeys: a registered hook of a context, called
\* for that context (before_all, after_all) or for one of its direct blocks
\* (before_each, after_each).
ExpectedCall(k) ==
    LET c == k.hook.ctx
        l == k.hook.list
    IN  /\ c \in Contexts
        /\ l \in HookLists
        /\ k.hook.i \in 1..Len(suite.context[c][l])
        /\ k.hook = suite.context[c][l][k.hook.i]
        /\ IF l \in {"before_all", "after_all"}
           THEN k.on = c
           ELSE k.on \in BlockSet(c)

\* C4: during a run no hook is executed more than once for the same node,
\* the only executions are those of a before_all or after_all hook for its
\* own context and of a before_each or after_each hook for a direct block of
\* its context, and when run has returned each of them has happened exactly
\* once.
C4_HookCardinality ==
    /\ \A k \in BagToSet(hook_calls) :
          ExpectedCall(k) /\ CopiesIn(k, hook_calls) = 1
    /\ run_pc = "returned" => BagToSet(hook_calls) = HookKeys

\* A finished run over a tree with a nested context holding an example, with
\* MaxHooks hooks in each list.
C4_Witness ==
    /\ run_pc = "returned"
    /\ \E c \in Contexts \ {Root} :
          /\ Len(suite.context[c].before_each) = MaxHooks
          /\ BlockSet(c) \cap Examples # {}
          /\ Len(suite.context[Parent(c)].before_each) = MaxHooks

\* The environments owned by the evaluation of node m.
EnvsOf(m) == {heap[BlockEnv(m)].marks, heap[ContextEnv(m)].marks}
                \cup (IF seen[m] # None THEN {seen[m].value} ELSE {})

\* C5: in parallel mode, for two distinct blocks A and B of one context, no
\* environment owned by B or by a node below B, and no environment an
\* example below B received, holds a mutation made by a hook called for A or
\* for a node below A.
C5_BranchIsolation ==
    runner.configuration.parallel =>
        \A c \in Contexts : \A A \in BlockSet(c) : \A B \in BlockSet(c) \ {A} :
            \A m \in {B} \cup Descendants(B) : \A e \in EnvsOf(m) :
                \A k \in 1..Len(e) : e[k].on \notin ({A} \cup Descendants(A))

\* Two sibling blocks evaluated at the same time in parallel mode, each one
\* mutated by before_each hooks called for it.
C5_Witness ==
    /\ runner.configuration.parallel
    /\ \E c \in Contexts :
          /\ Len(BlocksOf(c)) >= 2
          /\ LET A == BlocksOf(c)[2]
                 B == BlocksOf(c)[1]
             IN  /\ Evaluating(A) /\ Evaluating(B)
                 /\ Len(MarksOn(heap[BlockEnv(A)], A)) = MaxHooks
                 /\ Len(MarksOn(heap[BlockEnv(B)], B)) = 1

\* The ContextReport the visit of context c returned.
ContextReportOf(c) == IF c = Root THEN ret[c].value ELSE ret[c].value.report

\* C6: for every context and every parallel interleaving, the report of the
\* context has one sub-report per block and its i-th sub-report is the
\* report of the i-th declared block: it has the kind and the header of that
\* block, it is the report that block's evaluation returned and, for an
\* example, it carries the result of that example's function.
C6_SubReportsInDeclarationOrder ==
    runner.configuration.parallel =>
        \A c \in Contexts :
            ret[c] # None =>
                LET r == ContextReportOf(c)
                IN  /\ Len(r.sub_reports) = Len(BlocksOf(c))
                    /\ \A i \in 1..Len(BlocksOf(c)) :
                          LET b == BlocksOf(c)[i]
                              sub == r.sub_reports[i]
                          IN  /\ sub = ret[b].value
                              /\ sub.tag = suite.context[b].kind
                              /\ sub.header = suite.context[b].header
                              /\ b \in Examples =>
                                    sub.report.result = example_internal(BodyOf(b))

\* A parallel run in which the second block of a context returned before the
\* first, the two blocks are examples with different results, and the report
\* of the context has been built.
C6_Witness ==
    /\ runner.configuration.parallel
    /\ \E c \in Contexts :
          /\ ret[c] # None
          /\ Len(BlocksOf(c)) = 2
          /\ BlockSet(c) \subseteq Examples
          /\ returned_order = <<BlocksOf(c)[2], BlocksOf(c)[1]>>
          /\ ContextReportOf(c).sub_reports[1].report.result = Failure(None)
          /\ ContextReportOf(c).sub_reports[2].report.result = Success

RECURSIVE ReportAt(_)

\* The report of node n in the SuiteReport of the run: a ContextReport for a
\* context, an ExampleReport for an example.
ReportAt(n) ==
    IF n = Root
    THEN report.value.context
    ELSE ReportAt(Parent(n)).sub_reports[IndexOf(n)].report

\* C7: in both modes, when the body of an example panics, the SuiteReport
\* holds a Failure for that example, and every example of the tree has been
\* executed once and is reported with the result of its own body.
C7_PanicContained ==
    (report # None /\ \E e \in Examples : BodyOf(e).panics) =>
        \A e \in Examples :
            /\ body_calls[e] = 1
            /\ BodyOf(e).panics => ReportAt(e).result.tag = "Failure"
            /\ ~BodyOf(e).panics => ReportAt(e).result = Into(BodyOf(e))

\* A finished serial run in which the first declared example panicked and an
\* example declared after it, in another context, succeeded.
C7_Witness ==
    /\ run_pc = "returned"
    /\ ~runner.configuration.parallel
    /\ \E e1, e2 \in Examples :
          /\ e1 < e2
          /\ Parent(e1) # Parent(e2)
          /\ BodyOf(e1).panics
          /\ ReportAt(e1).result.tag = "Failure"
          /\ ReportAt(e2).result = Success

\* The result the function of example e returned.
ResultOf(e) ==
    IF pc[e] = "exit" THEN ret[e].value ELSE ret[e].value.report.result

\* C8 as stated: whatever the type of the panic payload, the example whose
\* body panicked gets Failure(Some(message)).
C8_AlwaysSomeMessage ==
    \A e \in Examples :
        (BodyOf(e).panics /\ ret[e] # None) =>
            ResultOf(e).tag = "Failure" /\ ResultOf(e).message.tag = "Some"

\* C8 (amended): an example whose body panicked with a &str or a String
\* payload gets Failure(Some(message)), the message being the panic text in
\* its Debug form inside "thread panicked at '...'."; with a payload of any
\* other type it gets Failure(None).
C8_PanicMessage ==
    \A e \in Examples :
        (BodyOf(e).panics /\ ret[e] # None) =>
            ResultOf(e) =
                IF BodyOf(e).type \in {"&str", "String"}
                THEN Failure(Some("thread panicked at '\"" \o BodyOf(e).value \o "\"'."))
                ELSE Failure(None)

\* A suite in which one body has panicked with a String payload and been
\* reported with its message, or one body has panicked with a payload
\* that is neither a &str nor a String and been reported without message.
C8_Witness ==
    \E e \in Examples :
        /\ pc[e] = "done"
        /\ \/ /\ BodyOf(e) = Panics("i32", "42")
              /\ ResultOf(e) = Failure(None)
           \/ /\ BodyOf(e) = Panics("String", "boom")
              /\ ResultOf(e).message = Some("thread panicked at '\"boom\"'.")

PastBlocks(c) == pc[c] \in {"after_all", "after_each", "done"}

\* C9: in both modes the body of an example is never invoked twice, it has
\* been invoked once the context holding it has left its blocks behind,
\* whatever the results of the other blocks, and when run has returned every
\* body of the tree has been invoked exactly once.
C9_EveryBodyOnce ==
    /\ \A e \in Examples : body_calls[e] <= 1
    /\ \A c \in Contexts :
          PastBlocks(c) => \A e \in Descendants(c) \cap Examples : body_calls[e] = 1
    /\ run_pc = "returned" => \A e \in Examples : body_calls[e] = 1

\* A finished run in which an example failed in a nested context and an
\* example declared after that context ran all the same.
C9_Witness ==
    /\ run_pc = "returned"
    /\ \E e1, e2 \in Examples :
          /\ Parent(e1) # Root
          /\ Parent(e2) = Root
          /\ IndexOf(Parent(e1)) < IndexOf(e2)
          /\ ReportAt(e1).result.tag = "Failure"
          /\ body_calls[e2] = 1

\* C10: the SuiteReport of a run is a failure if and only if the body of at
\* least one example fails; its failed count is the number of examples whose
\* body fails and its passed count the number of examples whose body
\* succeeds.
C10_ReportCounts ==
    report # None =>
        /\ SuiteReport_is_failure(report.value) <=> \E e \in Examples : BodyFails(e)
        /\ SuiteReport_get_failed(report.value) =
              Cardinality({e \in Examples : BodyFails(e)})
        /\ SuiteReport_get_passed(report.value) =
              Cardinality({e \in Examples : BodySucceeds(e)})

\* A returned run with two failing bodies, one of which panicked, in a tree
\* with a nested context.
C10_Witness ==
    /\ run_pc = "returned"
    /\ Contexts # {Root}
    /\ SuiteReport_get_failed(report.value) = 2
    /\ \E e \in Examples : BodyOf(e).panics

\* The contexts node n lies below, at any depth.
Ancestors(n) == {c \in Contexts : n \in Descendants(c)}

\* The item the before_all hooks of examples/advanced.rs insert.
Item == 42

\* The environment of examples/advanced.rs read off the trace of an
\* environment, every before_all hook being "env.set.insert(Item)": the set
\* holds Item as soon as one before_all hook has been applied.
BTreeSetOf(marks) ==
    {Item : i \in {j \in 1..Len(marks) : marks[j].hook.list = "before_all"}}

\* All before_all hooks of context c, applied once each in registration
\* order, are in the trace marks.
BeforeAllDone(marks, c) ==
    MarksOfList([marks |-> marks], c, "before_all") =
        MarksOf(suite.context[c].before_all, Len(suite.context[c].before_all), c)

\* C11: the clone of a block, from the moment it is taken, and the
\* environment the body of an example receives carry the mutations of all
\* before_all hooks of every ancestor context, at any depth; when every
\* before_all hook inserts the same item, an example below two contexts with
\* before_all hooks sees a set of length 1.
C11_BeforeAllInherited ==
    /\ \A b \in Nodes \ {Root} :
          Evaluating(b) =>
              \A c \in Ancestors(b) : BeforeAllDone(heap[BlockEnv(b)].marks, c)
    /\ \A e \in Examples :
          seen[e] # None =>
              /\ \A c \in Ancestors(e) : BeforeAllDone(seen[e].value, c)
              /\ (\E c \in Ancestors(e) : suite.context[c].before_all # <<>>) =>
                    Cardinality(BTreeSetOf(seen[e].value)) = 1

\* An example two contexts deep whose body has received an environment, each
\* of the two contexts having a before_all hook that inserted the item.
C11_Witness ==
    \E e \in Examples :
        /\ seen[e] # None
        /\ \E c1, c2 \in Ancestors(e) \ {Root} :
              /\ c1 # c2
              /\ suite.context[c1].before_all # <<>>
              /\ suite.context[c2].before_all # <<>>
        /\ BTreeSetOf(seen[e].value) = {Item}

RECURSIVE EnvAfterBeforeAll(_)

\* The trace of the environment of context c when its before_all loop has
\* ended: the environment its visit received (the clone of the suite's
\* environment for the root; for a nested context the clone of the clone its
\* parent made of its own environment, after the parent's before_each hooks)
\* followed by the before_all hooks of c.
EnvAfterBeforeAll(c) ==
    (IF c = Root
     THEN suite.environment.marks
     ELSE EnvAfterBeforeAll(Parent(c))
          \o MarksOf(suite.context[Parent(c)].before_each,
                     Len(suite.context[Parent(c)].before_each), c))
    \o MarksOf(suite.context[c].before_all, Len(suite.context[c].before_all), c)

\* The after_all loop of context c is about to call its first hook, or to
\* end at once for want of hooks.
AfterAllStarts(c) == pc[c] = "after_all" /\ idx[c] = 1

\* C12: from the end of the before_all loop of a context, through the
\* evaluation of all its blocks under any interleaving, to the moment its
\* after_all loop starts, the environment of the context is the one its
\* before_all hooks produced: no each-hook, body or nested context has
\* changed it.
C12_ContextEnvUntouched ==
    \A c \in Contexts :
        (pc[c] = "blocks" \/ AfterAllStarts(c)) =>
            /\ heap[ContextEnv(c)].live
            /\ heap[ContextEnv(c)].marks = EnvAfterBeforeAll(c)

\* In parallel mode, the root context about to start its after_all hooks,
\* after its first block, a nested context, returned later than the example
\* declared after it, with MaxHooks hooks in each list.
C12_Witness ==
    /\ runner.configuration.parallel
    /\ AfterAllStarts(Root)
    /\ Len(suite.context[Root].before_each) = MaxHooks
    /\ BlockSet(Root) \cap Examples # {}
    /\ \E b \in BlockSet(Root) \cap Contexts :
          /\ returned_order[Len(returned_order)] = b
          /\ IndexOf(b) = 1

\* The examples below context c whose report holds a result of the given
\* kind; they have all been evaluated when the report of c exists.
ExamplesWith(c, kind) ==
    {e \in Descendants(c) \cap Examples :
        LET result == ret[e].value.report.result
        IN  CASE kind = "passed" -> ExampleResult_is_success(result)
              [] kind = "failed" -> ExampleResult_is_failure(result)}

\* The sum of a count over the sub-reports of a ContextReport.
SumOver(r, kind) ==
    SumSeq([i \in 1..Len(r.sub_reports) |->
              CASE kind = "passed" -> BlockReport_get_passed(r.sub_reports[i])
                [] kind = "failed" -> BlockReport_get_failed(r.sub_reports[i])
                [] kind = "ignored" -> BlockReport_get_ignored(r.sub_reports[i])])

\* C13: for every ContextReport built by a run, passed, failed and ignored
\* are each the sum of the same count over its sub-reports and, the sums
\* being taken recursively, the number of examples below the context with a
\* result of that kind, so that the three add up to the number of examples
\* below it; the SuiteReport has the counts of the root ContextReport.
C13_CountsAreSums ==
    /\ \A c \in Contexts :
          ret[c] # None =>
              LET r == ContextReportOf(c)
              IN  /\ ContextReport_get_passed(r) = SumOver(r, "passed")
                  /\ ContextReport_get_failed(r) = SumOver(r, "failed")
                  /\ ContextReport_get_ignored(r) = SumOver(r, "ignored")
                  /\ ContextReport_get_passed(r) =
                        Cardinality(ExamplesWith(c, "passed"))
                  /\ ContextReport_get_failed(r) =
                        Cardinality(ExamplesWith(c, "failed"))
                  /\ ContextReport_get_passed(r) + ContextReport_get_failed(r)
                        + ContextReport_get_ignored(r) =
                        Cardinality(Descendants(c) \cap Examples)
    /\ report # None =>
          /\ SuiteReport_get_passed(report.value) = ContextReport_get_passed(ret[Root].value)
          /\ SuiteReport_get_failed(report.value) = ContextReport_get_failed(ret[Root].value)
          /\ SuiteReport_get_ignored(report.value) = ContextReport_get_ignored(ret[Root].value)

\* A SuiteReport over a nested context whose example passed, next to an
\* example that was ignored: the root counts one passed and one ignored, the
\* nested context one passed.
C13_Witness ==
    /\ report # None
    /\ SuiteReport_get_passed(report.value) = 1
    /\ SuiteReport_get_ignored(report.value) = 1
    /\ \E c \in BlockSet(Root) \cap Contexts :
          /\ ContextReport_get_passed(ContextReportOf(c)) = 1
          /\ ContextReport_get_ignored(ContextReportOf(c)) = 0

\* Some example at or below node n has been reported with a Failure.
FailureBelow(n) ==
    \E e \in ({n} \cup Descendants(n)) \cap Examples :
        /\ pc[e] \in {"after_each", "done"}
        /\ ret[e].value.report.result.tag = "Failure"

\* C14: the BlockReport of every evaluated block, the ContextReport of every
\* visited context and the SuiteReport are failures if and only if the
\* report of at least one example at or below them holds a Failure; examples
\* reported Success or Ignored make no report a failure.
C14_FailureIffFailureBelow ==
    /\ \A b \in Nodes \ {Root} :
          (ret[b] # None /\ pc[b] \in {"after_each", "done"}) =>
              (BlockReport_is_failure(ret[b].value) <=> FailureBelow(b))
    /\ \A c \in Contexts :
          ret[c] # None =>
              (ContextReport_is_failure(ContextReportOf(c)) <=> FailureBelow(c))
    /\ report # None =>
          (SuiteReport_is_failure(report.value) <=> FailureBelow(Root))

\* A SuiteReport that is a failure because of the example of a nested
\* context, next to the report of an ignored example that is no failure.
C14_Witness ==
    /\ report # None
    /\ SuiteReport_is_failure(report.value)
    /\ \E c \in BlockSet(Root) \cap Contexts :
          BlockReport_is_failure(ret[c].value)
    /\ \E e \in BlockSet(Root) \cap Examples :
          /\ ret[e].value.report.result = Ignored
          /\ ~BlockReport_is_failure(ret[e].value)

RECURSIVE VisitSerial(_)

\* The BlockReport the serial evaluation of node n yields, as a function of
\* the tree alone: evaluate_blocks_serial maps evaluate_block over the blocks
\* in order, the visit of an example reports the result of its function and
\* the visit of a context the reports of its blocks.
VisitSerial(n) ==
    IF suite.context[n].kind = "Example"
    THEN BlockReportExample(suite.context[n].header,
                            ExampleReport(example_internal(BodyOf(n))))
    ELSE BlockReportContext(suite.context[n].header,
            ContextReport([i \in 1..Len(BlocksOf(n)) |->
                                VisitSerial(BlocksOf(n)[i])]))

\* passed, failed and ignored of a ContextReport.
Counts(r) ==
    <<ContextReport_get_passed(r), ContextReport_get_failed(r),
      ContextReport_get_ignored(r)>>

\* The BlockReport standing, in the SuiteReport of the run, where block n
\* stands in the tree.
BlockReportAt(n) ==
    (IF Parent(n) = Root
     THEN report.value.context
     ELSE ReportAt(Parent(n))).sub_reports[IndexOf(n)]

\* C15: the report of a serial run is the one VisitSerial gives for the
\* tree, and the report of a run in either mode, under every interleaving,
\* has the same passed, failed and ignored counts as it at the suite level
\* and, for every context of the tree, a context report with the same counts
\* at the same place of the report tree.
C15_ParallelSerialCounts ==
    report # None =>
        /\ ~runner.configuration.parallel =>
              report.value = SuiteReport(suite.header, VisitSerial(Root).report)
        /\ <<SuiteReport_get_passed(report.value),
             SuiteReport_get_failed(report.value),
             SuiteReport_get_ignored(report.value)>> = Counts(VisitSerial(Root).report)
        /\ \A c \in Contexts \ {Root} :
              /\ BlockReportAt(c).tag = "Context"
              /\ Counts(BlockReportAt(c).report) = Counts(VisitSerial(c).report)

\* The report of a parallel run whose blocks returned in another order than
\* the serial one, over a nested context, with a failed and a passed example.
C15_Witness ==
    /\ report # None
    /\ runner.configuration.parallel
    /\ \E c \in BlockSet(Root) \cap Contexts : \E e \in BlockSet(Root) \cap Examples :
          /\ IndexOf(c) < IndexOf(e)
          /\ \E i, j \in 1..Len(returned_order) :
                i < j /\ returned_order[i] = e /\ returned_order[j] = c
    /\ Counts(report.value.context)[1] = 1
    /\ Counts(report.value.context)[2] = 1

\* Some run that returned had a suite with a failing body.
FailureCompleted ==
    \E i \in 1..Len(process.completed) : process.completed[i]

\* C16: the process exits only from the drop of the Runner and only with
\* status 101; the drop exits when exit_on_failure is set and a run that
\* returned had a failing body, and returns without exiting when
\* exit_on_failure is not set or no such run was made.
C16_ExitOnDrop ==
    /\ process.state = "alive" => process.exit_code = None
    /\ process.state = "exited" =>
          /\ process.exit_code = Some(101)
          /\ runner.configuration.exit_on_failure
          /\ FailureCompleted
    /\ process.state = "dropped" =>
          /\ process.exit_code = None
          /\ ~runner.configuration.exit_on_failure \/ ~FailureCompleted

\* The process has exited with 101 at the drop of a Runner on which a
\* failing run was followed by a successful one.
C16_Witness ==
    /\ process.state = "exited"
    /\ process.exit_code = Some(101)
    /\ process.completed = <<TRUE, FALSE>>

\* C17: at every moment, through runs made one after the other and runs of
\* two threads that overlap, should_exit is set if and only if some run that
\* has returned had a failing body.
C17_FlagIsOrOfRuns ==
    runner.should_exit <=> FailureCompleted

\* The run of the other thread, which failed, returned while the run of this
\* thread was under way; this run then returned without failure and the flag
\* is still set.
C17_Witness ==
    /\ process.completed = <<TRUE, FALSE>>
    /\ other.pc = "returned"
    /\ other.fails
    /\ run_pc = "returned"
    /\ ~SuiteFails
    /\ runner.should_exit

\* No run of another thread has touched the panic hook.
NoOtherRun == other.runs = 0

\* C18 as stated: when run has returned or unwound, the panic hook is the
\* one that was in place when run was called.
C18_PreviousHookRestored ==
    (run_pc \in {"returned", "unwound"} /\ NoOtherRun) =>
        panic_hook = process.previous_hook

\* C18 (amended): when run has returned and no other run is under way, the
\* panic hook is the default hook, whatever hook was in place when run was
\* called; when run has unwound, the silent hook set by run is still in
\* place.
C18_DefaultHookAfterRun ==
    /\ (run_pc = "returned" /\ other.pc \in {"idle", "returned"}) =>
          panic_hook = "default"
    /\ (run_pc = "unwound" /\ NoOtherRun) => panic_hook = "silent"

\* run was called with a hook of the program in place and has returned: the
\* default hook is in place.
C18_Witness ==
    /\ run_pc = "returned"
    /\ NoOtherRun
    /\ process.previous_hook = "custom"
    /\ panic_hook = "default"

\* The positions of the log at which observer o was called with the event
\* of that name for that header.
CallsOf(o, name, header) ==
    {i \in 1..Len(calls) :
        /\ calls[i].observer = o
        /\ calls[i].event.name = name
        /\ calls[i].event.header = header}

Observers == {runner.observers[o] : o \in 1..Len(runner.observers)}

\* The last n calls of the log.
LastCalls(n) == SubSeq(calls, Len(calls) - n + 1, Len(calls))

\* The visit of the suite has returned.
SuiteVisited == run_pc \in {"clean", "record", "returned"}

\* C19: the first calls of a run are enter_suite(header), made to each
\* observer in turn, and no enter_suite is made later; no exit_suite is made
\* while the root context is visited; once the visit of the suite has
\* returned the last calls are exit_suite(header, report), made to each
\* observer in turn, with the SuiteReport run returns, and nothing follows.
C19_SuiteEventsFirstAndLast ==
    LET n == Len(runner.observers)
        enter == [o \in 1..n |->
                    [observer |-> runner.observers[o],
                     event |-> [name |-> "enter_suite", header |-> suite.header,
                                report |-> None]]]
        exit == [o \in 1..n |->
                    [observer |-> runner.observers[o],
                     event |-> [name |-> "exit_suite", header |-> suite.header,
                                report |-> report]]]
    IN  /\ run_pc \in {"ready", "visit_suite"} => calls = <<>>
        /\ run_pc \notin {"ready", "visit_suite"} =>
              /\ Len(calls) >= n
              /\ \A o \in 1..n : o <= Len(calls) => calls[o] = enter[o]
              /\ \A i \in (n + 1)..Len(calls) : calls[i].event.name # "enter_suite"
        /\ ~SuiteVisited =>
              \A i \in 1..Len(calls) : calls[i].event.name # "exit_suite"
        /\ SuiteVisited =>
              /\ report # None
              /\ Len(calls) >= 2 * n
              /\ Len(calls) >= n => LastCalls(n) = exit
              /\ \A i \in 1..(Len(calls) - n) : calls[i].event.name # "exit_suite"

\* run has returned a report that is a failure, after calls for a nested
\* context and two examples were made between enter_suite and exit_suite.
C19_Witness ==
    /\ run_pc = "returned"
    /\ SuiteReport_is_failure(report.value)
    /\ Contexts # {Root}
    /\ calls[Len(calls)].event.report = report
    /\ \E i \in 1..Len(calls) : calls[i].event.name = "exit_context"

\* The body of example e has returned or panicked.
BodyDone(e) == pc[e] \in {"exit", "after_each", "done"}

\* C20: each observer is called with enter_example(header) at most once per
\* example, and has been when the body is invoked; it is called with
\* exit_example(header, report) at most once, only after the body has
\* returned and after enter_example, and has been when the visit of the
\* example returns; the report holds the result of the body: Success for a
\* body that succeeds, a Failure for one that fails or panics, Ignored for
\* an ignored one.  When run has returned there is exactly one pair per
\* example and observer.
C20_ExamplePairs ==
    \A e \in Examples : \A o \in Observers :
        LET enters == CallsOf(o, "enter_example", suite.context[e].header)
            exits == CallsOf(o, "exit_example", suite.context[e].header)
        IN  /\ Cardinality(enters) <= 1
            /\ Cardinality(exits) <= 1
            /\ (pc[e] = "body" \/ BodyDone(e)) <=> Cardinality(enters) = 1
            /\ body_calls[e] = 0 => exits = {}
            /\ pc[e] \in {"after_each", "done"} <=> Cardinality(exits) = 1
            /\ \A i \in enters : \A j \in exits :
                  /\ i < j
                  /\ body_calls[e] = 1
                  /\ LET result == calls[j].event.report.value.result
                     IN  /\ BodyFails(e) => result.tag = "Failure"
                         /\ BodySucceeds(e) => result = Success
                         /\ (~BodyFails(e) /\ ~BodySucceeds(e)) => result = Ignored
                         /\ result = ResultOf(e)
            /\ run_pc = "returned" =>
                  Cardinality(enters) = 1 /\ Cardinality(exits) = 1

\* A parallel run that has returned, in which the observers were called with
\* exit_example for a body that panicked, with a Failure, and for a body
\* that returned false.
C20_Witness ==
    /\ run_pc = "returned"
    /\ runner.configuration.parallel
    /\ \E e1, e2 \in Examples :
          /\ BodyOf(e1).panics
          /\ BodyOf(e2) = Returns("bool", "false")
          /\ \A e \in {e1, e2} : \A o \in Observers :
                \E j \in CallsOf(o, "exit_example", suite.context[e].header) :
                    calls[j].event.report.value.result.tag = "Failure"

\* The contexts without a header: the root context of the suite and the
\* contexts opened with Context::scope.
Anonymous == {c \in Contexts : suite.context[c].header = None}

\* The visit of context c has started / has built its report.
ContextEntered(c) ==
    pc[c] \in {"before_all", "blocks", "after_all", "after_each", "done"}

ContextExited(c) == pc[c] \in {"after_each", "done"}

\* The hooks of context c have run as a visit runs them, as far as the visit
\* has come: once its blocks are evaluated every before_all hook has been
\* called once for c, once a block of c has returned every before_each and
\* after_each hook has been called once for that block, and once the visit
\* has built its report every after_all hook has been called once for c.
HooksRan(c) ==
    LET ctx == suite.context[c]
        Once(hook, on) == CopiesIn([hook |-> hook, on |-> on], hook_calls) = 1
    IN  /\ pc[c] \in {"blocks", "after_all", "after_each", "done"} =>
              \A i \in 1..Len(ctx.before_all) : Once(ctx.before_all[i], c)
        /\ \A b \in BlockSet(c) :
              pc[b] = "done" =>
                  /\ \A i \in 1..Len(ctx.before_each) : Once(ctx.before_each[i], b)
                  /\ \A i \in 1..Len(ctx.after_each) : Once(ctx.after_each[i], b)
        /\ ContextExited(c) =>
              \A i \in 1..Len(ctx.after_all) : Once(ctx.after_all[i], c)

\* C21: every enter_context and exit_context call made carries the header
\* of a context that has one and whose visit has come that far, each
\* observer getting one call of each per such context, so that none is made
\* for a context without a header; the hooks of a context run the same way
\* whether or not it has a header, and an example below an anonymous context
\* receives an environment with the marks of that context's before_all
\* hooks and, as its direct block, of its before_each hooks.
C21_AnonymousContextSilent ==
    /\ \A i \in 1..Len(calls) :
          calls[i].event.name \in {"enter_context", "exit_context"} =>
              \E c \in Contexts \ Anonymous :
                  /\ calls[i].event.header = suite.context[c].header.value
                  /\ ContextEntered(c)
                  /\ calls[i].event.name = "exit_context" => ContextExited(c)
    /\ \A c \in Contexts \ Anonymous : \A o \in Observers :
          /\ Cardinality(CallsOf(o, "enter_context", suite.context[c].header.value))
                = IF ContextEntered(c) THEN 1 ELSE 0
          /\ Cardinality(CallsOf(o, "exit_context", suite.context[c].header.value))
                = IF ContextExited(c) THEN 1 ELSE 0
    /\ \A c \in Contexts : HooksRan(c)
    /\ \A e \in Examples :
          seen[e] # None =>
              \A c \in Anonymous \cap Ancestors(e) :
                  /\ BeforeAllDone(seen[e].value, c)
                  /\ c = Parent(e) =>
                        MarksOn([marks |-> seen[e].value], e) =
                            MarksOf(suite.context[c].before_each,
                                    Len(suite.context[c].before_each), e)

\* A run has returned over a tree with an anonymous scope inside a named
\* context, the scope having hooks in each list and an example that received
\* their marks, with context calls made for the named context only.
C21_Witness ==
    /\ run_pc = "returned"
    /\ \E c \in Anonymous \ {Root} :
          /\ suite.context[c].before_all # <<>>
          /\ suite.context[Parent(c)].header # None
          /\ \E e \in BlockSet(c) \cap Examples :
                /\ seen[e] # None
                /\ MarksOn([marks |-> seen[e].value], e) # <<>>
          /\ \E i \in 1..Len(calls) :
                /\ calls[i].event.name = "exit_context"
                /\ calls[i].event.header = suite.context[Parent(c)].header.value

\* C22: the log of observer calls is, broadcast after broadcast in the order
\* they were made, one call per registered observer with the event of that
\* broadcast, the observers coming in registration order; a Runner without
\* observers makes no call at all.
C22_BroadcastOncePerObserver ==
    LET n == Len(runner.observers)
    IN  /\ Len(calls) = n * Len(broadcasts)
        /\ \A k \in 1..Len(broadcasts) : \A o \in 1..n :
              (k - 1) * n + o <= Len(calls) =>
                  calls[(k - 1) * n + o] =
                      [observer |-> runner.observers[o], event |-> broadcasts[k]]
        /\ n = 0 => calls = <<>>

\* MaxBroadcasts broadcasts were made on a Runner whose observers were
\* registered in the order 2, 1, and each reached the two of them.
C22_Witness ==
    /\ runner.observers = <<2, 1>>
    /\ Len(broadcasts) = MaxBroadcasts
    /\ Len(calls) = 2 * MaxBroadcasts
    /\ calls[1].observer = 2
    /\ calls[2].observer = 1

\* C23: on threads that keep running, a run that has been called returns,
\* in serial and in parallel mode, with a SuiteReport: no evaluation of a
\* block and no wait for the blocks of a context goes on forever.
C23_RunTerminates ==
    (run_pc = "visit_suite") ~> (run_pc = "returned" /\ report # None)

\* A parallel run has returned its report over a tree with a nested context
\* next to an example, every hook list holding MaxHooks hooks.
C23_Witness ==
    /\ run_pc = "returned"
    /\ report # None
    /\ runner.configuration.parallel
    /\ Len(suite.context[Root].after_all) = MaxHooks
    /\ \E c \in BlockSet(Root) \cap Contexts : BlockSet(c) # {}
    /\ BlockSet(Root) \cap Examples # {}

\* C24 as stated: the result of an example whose body returned follows the
\* table, false giving the message without any other character.
C24_TableAsStated ==
    \A e \in Examples :
        body_calls[e] = 1 /\ ~BodyOf(e).panics =>
            /\ BodyOf(e) = Returns("unit", "()") => ResultOf(e) = Success
            /\ BodyOf(e) = Returns("bool", "true") => ResultOf(e) = Success
            /\ BodyOf(e) = Returns("bool", "false") =>
                  ResultOf(e) =
                      Failure(Some("assertion failed: expected condition to be true"))
            /\ BodyOf(e) = Returns("Result", "Ok") => ResultOf(e) = Success
            /\ BodyOf(e) = ReturnsErr(ErrUnit) => ResultOf(e) = Failure(Some("()"))
            /\ BodyOf(e) = ReturnsErr(ErrStr) =>
                  ResultOf(e) = Failure(Some("\"bad\""))

\* C24: the result of an example whose body returned follows the table:
\* unit gives Success; true gives Success; false gives Failure with the
\* message "assertion failed: " followed by "expected condition to be true"
\* between two grave accents; Ok gives Success; Err(e) gives Failure with
\* the Debug text of e, which is () for the unit value and the string
\* between double quotes for a string.
C24_ConversionTable ==
    \A e \in Examples :
        body_calls[e] = 1 /\ ~BodyOf(e).panics =>
            /\ BodyOf(e) = Returns("unit", "()") => ResultOf(e) = Success
            /\ BodyOf(e) = Returns("bool", "true") => ResultOf(e) = Success
            /\ BodyOf(e) = Returns("bool", "false") =>
                  /\ ResultOf(e).tag = "Failure"
                  /\ ResultOf(e).message.tag = "Some"
                  /\ ResultOf(e).message.value =
                        "assertion failed: <U+0060>expected condition to be true<U+0060>"
            /\ BodyOf(e) = Returns("Result", "Ok") => ResultOf(e) = Success
            /\ BodyOf(e) = ReturnsErr(ErrUnit) => ResultOf(e) = Failure(Some("()"))
            /\ BodyOf(e) = ReturnsErr(ErrStr) =>
                  ResultOf(e) = Failure(Some("\"bad\""))

\* A run has returned in which one body returned false and the other
\* Err("bad"), and both results are failures with a message.
C24_Witness ==
    /\ run_pc = "returned"
    /\ \E e1, e2 \in Examples :
          /\ BodyOf(e1) = Returns("bool", "false")
          /\ BodyOf(e2) = ReturnsErr(ErrStr)
          /\ ResultOf(e1).tag = "Failure"
          /\ ResultOf(e2).message = Some("\"bad\"")

\* C25: the environment of the suite is at all times the one the suite was
\* built with, every run, the first and the one after another run of the
\* same suite, starts the visit on a clone equal to it, and no step of a run
\* changes the suite, its block lists and hook lists included (the suite
\* changes only when the caller gives another one to the next run).
C25_SuiteUntouched ==
    /\ [](/\ heap[SuiteEnv] = suite.environment
          /\ heap[SuiteEnv] = [live |-> TRUE, marks |-> <<>>]
          /\ run_pc = "visit_suite" =>
                heap[ContextEnv(Root)] = [live |-> TRUE, marks |-> <<>>])
    /\ [][(run_pc \notin {"returned", "unwound"} \/ run_pc' # "ready")
            => suite' = suite]_vars

\* The second run of one suite stands after its before_all hooks, which have
\* changed the clone the run works on, the first run having returned.
C25_Witness ==
    /\ process.runs = 2
    /\ other.runs = 0
    /\ Len(process.completed) = 1
    /\ process.completed[1] = SuiteFails
    /\ pc[Root] = "blocks"
    /\ heap[ContextEnv(Root)].marks # <<>>
    /\ heap[SuiteEnv] = suite.environment

\* The tests and the describes declared in the tree of the Runner of
\* src/runner.rs, the root apart.
LegacyTests == {n \in 1..Len(legacy.describe) : legacy.describe[n].kind = "Test"}

LegacyDescribes ==
    {n \in 2..Len(legacy.describe) : legacy.describe[n].kind = "Describe"}

\* What test t does: it returns an error or false, or it panics; it returns
\* a value that is neither a Result<(), ()> nor () nor a bool.
ReturnedErrorOrPanicked(t) ==
    LET function == legacy.describe[t].function.value
    IN  \/ function.panics
        \/ function = Returns("Result<(), ()>", "Err")
        \/ function = Returns("bool", "false")

ReturnedOther(t) ==
    LET function == legacy.describe[t].function.value
    IN  ~function.panics /\ function.type \notin {"Result<(), ()>", "unit", "bool"}

LegacyFinished == legacy.pc = "finished"

\* C26 as stated: after run, result() is Err exactly when some test of the
\* tree returned an error or false or panicked.
C26_ErrIffErrorOrPanic ==
    LegacyFinished =>
        (LegacyResult.tag = "Err" <=> \E t \in LegacyTests : ReturnedErrorOrPanicked(t))

\* C26: after run, result() is Err exactly when some test of the tree, at
\* any depth, returned an error or false, panicked, or returned a value of a
\* type other than Result<(), ()>, () and bool; it is Ok when every test
\* returned Ok, () or true and when the tree holds no test; it holds the
\* report of the run.
C26_ErrIffSomeTestFailed ==
    LegacyFinished =>
        /\ LegacyResult.tag = "Err" <=>
              \E t \in LegacyTests : ReturnedErrorOrPanicked(t) \/ ReturnedOther(t)
        /\ LegacyResult.tag \in {"Ok", "Err"}
        /\ LegacyTests = {} => LegacyResult.tag = "Ok"
        /\ LegacyResult.report = legacy.counts

\* A run has finished with Err, the only test that did not pass being in a
\* describe of the root, followed by a test that passed.
C26_Witness ==
    /\ LegacyFinished
    /\ LegacyResult.tag = "Err"
    /\ \E t \in LegacyTests :
          /\ legacy.describe[t].function.value.panics
          /\ \E d \in LegacyDescribes : legacy.describe[d].tests = <<t>>
          /\ \A u \in LegacyTests \ {t} :
                legacy.describe[u].function.value = Returns("Result<(), ()>", "Ok")
          /\ LegacyTests # {t}

\* C27: after run, success_count is the number of tests that passed and
\* error_count the number of tests that failed.
C27_CountsMatchResults ==
    LegacyFinished =>
        LET failed == {t \in LegacyTests :
                          ReturnedErrorOrPanicked(t) \/ ReturnedOther(t)}
        IN  /\ LegacyResult.report.error_count = Cardinality(failed)
            /\ LegacyResult.report.success_count = Cardinality(LegacyTests \ failed)

\* C28: after run, total_tests is the number of tests declared in the tree,
\* at any depth, the describes not being counted.
C28_TotalIsNumberOfTests ==
    LegacyFinished =>
        LegacyResult.report.total_tests = Cardinality(LegacyTests)

RECURSIVE EventsOf(_), EventsFrom(_, _)

\* The events of one testable: StartTest and EndTest with the result of the
\* test; StartDescribe and EndDescribe around the events of the testables
\* of the describe.
EventsOf(n) ==
    IF legacy.describe[n].kind = "Test"
    THEN << [event |-> "StartTest", name |-> legacy.describe[n].name],
            [event |-> "EndTest",
             result |-> IF ReturnedErrorOrPanicked(n) \/ ReturnedOther(n)
                        THEN TestErr ELSE TestOk] >>
    ELSE <<[event |-> "StartDescribe", name |-> legacy.describe[n].name]>>
         \o EventsFrom(n, 1)
         \o <<[event |-> "EndDescribe"]>>

\* The events of the testables of describe ctx from the i-th on, in the
\* order of their declaration.
EventsFrom(ctx, i) ==
    IF i > Len(legacy.describe[ctx].tests)
    THEN <<>>
    ELSE EventsOf(legacy.describe[ctx].tests[i]) \o EventsFrom(ctx, i + 1)

\* C29: a Runner that has not run has sent no event; the events of a run
\* start with StartRunner, go on with the events of the testables of the
\* root in the order of their declaration, each test giving StartTest(name)
\* followed at once by EndTest(result) and each describe StartDescribe(name)
\* and EndDescribe around the events of its own testables, and end with
\* FinishedRunner carrying what result() returns.
C29_EventOrder ==
    LET body == <<[event |-> "StartRunner"]>> \o EventsFrom(1, 1)
    IN  /\ legacy.pc = "new" => legacy.events = <<>>
        /\ legacy.pc = "running" =>
              /\ legacy.events # <<>>
              /\ IsPrefix(legacy.events, body)
        /\ LegacyFinished =>
              legacy.events =
                  body \o <<[event |-> "FinishedRunner", result |-> LegacyResult]>>

\* A run has finished over a tree with a test followed by a describe in a
\* describe holding a test that failed, and EndDescribe was sent twice in a
\* row before FinishedRunner.
C29_Witness ==
    /\ LegacyFinished
    /\ Len(legacy.events) >= 4
    /\ legacy.events[Len(legacy.events)].event = "FinishedRunner"
    /\ legacy.events[Len(legacy.events) - 1].event = "EndDescribe"
    /\ legacy.events[Len(legacy.events) - 2].event = "EndDescribe"
    /\ legacy.events[2].event = "StartTest"
    /\ \E t \in LegacyTests : ReturnedErrorOrPanicked(t)

\* The trace of the environment of evaluate_block for block b when the
\* before_each loop of wrap_each has ended: the environment of the parent
\* context after its before_all hooks, then its before_each hooks called
\* for b.
EnvAfterBeforeEach(b) ==
    EnvAfterBeforeAll(Parent(b))
    \o MarksOf(suite.context[Parent(b)].before_each,
               Len(suite.context[Parent(b)].before_each), b)

\* The all-hooks of context c that have been called when the visit of c is
\* at its present point, as marks: the before_all hooks, then the after_all
\* hooks.
AllHooksCalled(c) ==
    CASE pc[c] = "before_all" ->
            MarksOf(suite.context[c].before_all, idx[c] - 1, c)
      [] pc[c] = "blocks" ->
            MarksOf(suite.context[c].before_all, Len(suite.context[c].before_all), c)
      [] pc[c] = "after_all" ->
            MarksOf(suite.context[c].before_all, Len(suite.context[c].before_all), c)
            \o MarksOf(suite.context[c].after_all, idx[c] - 1, c)
      [] pc[c] = "after_each" ->
            MarksOf(suite.context[c].before_all, Len(suite.context[c].before_all), c)
            \o MarksOf(suite.context[c].after_all, Len(suite.context[c].after_all), c)
      [] OTHER -> <<>>

\* The after_each hooks of the parent that have been called for block b.
AfterEachCalled(b) ==
    IF pc[b] = "after_each"
    THEN MarksOf(suite.context[Parent(b)].after_each, idx[b] - 1, b)
    ELSE <<>>

\* The visit of the nested context c is under way, or has returned to the
\* wrap_each of its block, which has not returned yet.
NestedVisit(c) == pc[c] \in {"before_all", "blocks", "after_all", "after_each"}

\* C30 as stated: the before_all and after_all hooks of a nested context
\* mutate the environment of its block, and the after_each hooks of the
\* parent run on that environment with those mutations.
C30_NestedVisitedOnChildEnv ==
    \A c \in Contexts \ {Root} :
        NestedVisit(c) =>
            heap[BlockEnv(c)].marks =
                EnvAfterBeforeEach(c) \o AllHooksCalled(c) \o AfterEachCalled(c)

\* C30: a nested context is visited on a clone of the environment of its
\* block, taken after the before_each hooks of the parent: its before_all
\* and after_all hooks mutate that clone, which is dropped when the visit
\* returns; the environment of the block stays as the before_each hooks
\* left it for the whole visit, and the after_each hooks of the parent run
\* on it without any mutation of the nested context.
C30_NestedVisitedOnClone ==
    \A c \in Contexts \ {Root} :
        /\ NestedVisit(c) =>
              /\ heap[BlockEnv(c)].live
              /\ heap[BlockEnv(c)].marks = EnvAfterBeforeEach(c) \o AfterEachCalled(c)
              /\ MarksOfList(heap[BlockEnv(c)], c, "before_all") = <<>>
              /\ MarksOfList(heap[BlockEnv(c)], c, "after_all") = <<>>
        /\ pc[c] \in {"before_all", "blocks", "after_all"} =>
              /\ heap[ContextEnv(c)].live
              /\ heap[ContextEnv(c)].marks = EnvAfterBeforeEach(c) \o AllHooksCalled(c)
        /\ pc[c] = "after_each" => ~heap[ContextEnv(c)].live

\* The visit of a nested context with before_all and after_all hooks has
\* returned and the after_each hooks of the parent have all been called on
\* the environment of its block.
C30_Witness ==
    \E c \in Contexts \ {Root} :
        /\ pc[c] = "after_each"
        /\ suite.context[c].before_all # <<>>
        /\ suite.context[c].after_all # <<>>
        /\ suite.context[Parent(c)].after_each # <<>>
        /\ idx[c] = Len(suite.context[Parent(c)].after_each) + 1
        /\ heap[BlockEnv(c)].live

\* How far the evaluation of node n has come, as a number growing along the
\* code of evaluate_block, of the visits and of wrap_all and wrap_each.
Stage(n) ==
    CASE pc[n] = "idle" -> 0
      [] pc[n] = "before_each" -> 1
      [] pc[n] \in {"enter", "body"} -> 2
      [] pc[n] \in {"before_all", "exit"} -> 3
      [] pc[n] = "blocks" -> 4
      [] pc[n] = "after_all" -> 5
      [] pc[n] = "after_each" -> 6
      [] pc[n] = "done" -> 7

\* One step of a run: what node n does, i being the place of the hook in
\* its list for the steps that call a hook.
RunStep(n, kind, i) == [node |-> n, kind |-> kind, i |-> i]

HookSteps(n, kind, list) == [i \in 1..Len(list) |-> RunStep(n, kind, i)]

RECURSIVE SerialSteps(_), SerialStepsFrom(_, _)

\* The steps of the evaluation of node n and of everything below it, in the
\* order of a depth-first traversal of the tree in declaration order.
SerialSteps(n) ==
    LET node == suite.context[n]
        before == IF n = Root
                  THEN <<>>
                  ELSE <<RunStep(n, "clone", 0)>>
                       \o HookSteps(n, "before_each", suite.context[Parent(n)].before_each)
        after == IF n = Root
                 THEN <<>>
                 ELSE HookSteps(n, "after_each", suite.context[Parent(n)].after_each)
                      \o <<RunStep(n, "return", 0)>>
    IN  before
        \o (IF node.kind = "Example"
            THEN <<RunStep(n, "enter_example", 0), RunStep(n, "body", 0),
                   RunStep(n, "exit_example", 0)>>
            ELSE <<RunStep(n, "enter_context", 0)>>
                 \o HookSteps(n, "before_all", node.before_all)
                 \o SerialStepsFrom(n, 1)
                 \o HookSteps(n, "after_all", node.after_all)
                 \o <<RunStep(n, "exit_context", 0)>>)
        \o after

SerialStepsFrom(c, i) ==
    IF i > Len(BlocksOf(c))
    THEN <<>>
    ELSE SerialSteps(BlocksOf(c)[i]) \o SerialStepsFrom(c, i + 1)

\* Whether a step has been taken, read off where its node stands.
Taken(step) ==
    LET n == step.node
    IN  CASE step.kind = "clone" -> Stage(n) >= 1
          [] step.kind = "before_each" ->
                Stage(n) > 1 \/ (Stage(n) = 1 /\ idx[n] > step.i)
          [] step.kind \in {"enter_example", "enter_context"} -> Stage(n) >= 3 \/ pc[n] = "body"
          [] step.kind = "body" -> Stage(n) >= 3
          [] step.kind = "before_all" ->
                Stage(n) > 3 \/ (Stage(n) = 3 /\ idx[n] > step.i)
          [] step.kind = "after_all" ->
                Stage(n) > 5 \/ (Stage(n) = 5 /\ idx[n] > step.i)
          [] step.kind \in {"exit_example", "exit_context"} -> Stage(n) >= 6
          [] step.kind = "after_each" ->
                Stage(n) > 6 \/ (Stage(n) = 6 /\ idx[n] > step.i)
          [] step.kind = "return" -> Stage(n) = 7

\* The report a serial visit of context c builds.
SerialContextReport(c) ==
    ContextReport([i \in 1..Len(BlocksOf(c)) |-> VisitSerial(BlocksOf(c)[i])])

\* The events a step broadcasts: one for the entry and the exit of an
\* example and of a context that has a header, none for the other steps.
EventsOfStep(step) ==
    LET node == suite.context[step.node]
    IN  CASE step.kind = "enter_example" ->
                <<Event("enter_example", node.header, None)>>
          [] step.kind = "exit_example" ->
                <<Event("exit_example", node.header,
                        Some(ExampleReport(example_internal(BodyOf(step.node)))))>>
          [] step.kind = "enter_context" /\ node.header # None ->
                <<Event("enter_context", node.header.value, None)>>
          [] step.kind = "exit_context" /\ node.header # None ->
                <<Event("exit_context", node.header.value,
                        Some(SerialContextReport(step.node)))>>
          [] OTHER -> <<>>

\* The hook a step calls and the node it is called for.
HookOfStep(step) ==
    LET n == step.node
        list == IF step.kind \in {"before_all", "after_all"}
                THEN suite.context[n][step.kind]
                ELSE suite.context[Parent(n)][step.kind]
    IN  [hook |-> list[step.i], on |-> n]

RECURSIVE EventsOfSteps(_, _)

\* The events of the first k steps of a sequence of steps.
EventsOfSteps(seq, k) ==
    IF k = 0 THEN <<>> ELSE EventsOfSteps(seq, k - 1) \o EventsOfStep(seq[k])

\* C31: in a serial run the steps taken so far (clones, hook calls, example
\* bodies, entries and exits with their observer events, returns) are at
\* every moment a prefix of the depth-first traversal of the tree in
\* declaration order: the events broadcast are those of that prefix, in
\* that order, between enter_suite and exit_suite, the hook calls made are
\* those of that prefix, the blocks have returned in declaration order, and
\* no block has been cloned before the sibling declared before it returned.
C31_SerialDepthFirst ==
    (~runner.configuration.parallel /\ run_pc # "ready") =>
        LET all == SerialSteps(Root)
            k == Cardinality({j \in 1..Len(all) : Taken(all[j])})
            hooks == {j \in 1..k :
                         all[j].kind \in {"before_all", "before_each",
                                          "after_all", "after_each"}}
        IN  /\ \A j \in 1..Len(all) : Taken(all[j]) <=> j <= k
            /\ run_pc = "visit_suite" => k = 0 /\ broadcasts = <<>>
            /\ run_pc = "in_suite" =>
                  broadcasts = <<Event("enter_suite", suite.header, None)>>
                               \o EventsOfSteps(all, k)
            /\ run_pc \notin {"visit_suite", "in_suite"} =>
                  /\ k = Len(all)
                  /\ broadcasts =
                        <<Event("enter_suite", suite.header, None)>>
                        \o EventsOfSteps(all, k)
                        \o <<Event("exit_suite", suite.header,
                                   Some(SuiteReport(suite.header,
                                                    SerialContextReport(Root))))>>
            /\ \A j \in hooks : CopiesIn(HookOfStep(all[j]), hook_calls) = 1
            /\ BagCardinality(hook_calls) = Cardinality(hooks)
            /\ \A e \in Examples : body_calls[e] = IF Stage(e) >= 3 THEN 1 ELSE 0
            /\ \A i, j \in 1..Len(returned_order) :
                  i < j => returned_order[i] # returned_order[j]
            /\ \A b1, b2 \in Nodes \ {Root} :
                  (Parent(b1) = Parent(b2) /\ IndexOf(b1) < IndexOf(b2)
                   /\ pc[b2] # "idle") => pc[b1] = "done"

\* A serial run stands between the return of a nested context, the first
\* block of its parent, and the clone of the example declared after it,
\* with hooks in every list.
C31_Witness ==
    /\ ~runner.configuration.parallel
    /\ run_pc = "in_suite"
    /\ \E c \in Contexts \ {Root} : \E e \in Examples :
          /\ Parent(c) = Parent(e)
          /\ IndexOf(c) < IndexOf(e)
          /\ pc[c] = "done"
          /\ pc[e] = "idle"
          /\ suite.context[c].before_all # <<>>
          /\ suite.context[Parent(c)].after_each # <<>>
          /\ Len(broadcasts) >= 5

\* The positions of broadcasts at which the event of that name was
\* broadcast for node n; none for a context without a header.
BroadcastsOf(n, name) ==
    {i \in 1..Len(broadcasts) :
        /\ broadcasts[i].name = name
        /\ \/ suite.context[n].kind = "Example"
              /\ broadcasts[i].header = suite.context[n].header
           \/ suite.context[n].kind = "Context"
              /\ suite.context[n].header # None
              /\ broadcasts[i].header = suite.context[n].header.value}

\* The positions of broadcasts holding an event of node n.
EventsAt(n) ==
    BroadcastsOf(n, "enter_example") \cup BroadcastsOf(n, "exit_example")
    \cup BroadcastsOf(n, "enter_context") \cup BroadcastsOf(n, "exit_context")

\* Something of node d has happened: its evaluation has started, a hook has
\* been called for it, its body has run or an event of it was broadcast.
Touched(d) ==
    \/ pc[d] # "idle"
    \/ body_calls[d] > 0
    \/ EventsAt(d) # {}
    \/ \E m \in BagToSet(hook_calls) : m.on = d

\* Everything of node d has happened: its evaluation has returned, with its
\* report, after every hook called for it and its body.
Finished(d) ==
    /\ pc[d] = "done"
    /\ ret[d] # None
    /\ suite.context[d].kind = "Example" => body_calls[d] = 1
    /\ suite.context[d].kind = "Context" => HooksRan(d)
    /\ HooksRan(Parent(d))

\* What no step may change in a node whose evaluation has returned.
Frozen(d) ==
    /\ pc'[d] = pc[d]
    /\ body_calls'[d] = body_calls[d]
    /\ ret'[d] = ret[d]
    /\ \A m \in BagToSet(hook_calls') :
          m.on = d => CopiesIn(m, hook_calls') = CopiesIn(m, hook_calls)

\* C32: in a parallel run, under every interleaving, for each context with
\* a header: nothing of a node below it happens before its enter_context is
\* broadcast, which comes once; when its exit_context is broadcast, once,
\* everything of every node below it has happened, every event of a node
\* below it stands between the two in the order of the broadcasts, the
\* event carries the report made of the reports its blocks returned, in
\* declaration order, and no later step changes anything of a node below.
C32_Bracketed ==
    /\ [](runner.configuration.parallel =>
            \A c \in Contexts \ Anonymous :
                LET entered == BroadcastsOf(c, "enter_context")
                    exited == BroadcastsOf(c, "exit_context")
                IN  /\ Cardinality(entered) <= 1
                    /\ Cardinality(exited) <= 1
                    /\ exited # {} => entered # {}
                    /\ \A d \in Descendants(c) :
                          /\ Touched(d) => entered # {}
                          /\ exited # {} => Finished(d)
                          /\ \A i \in EventsAt(d) :
                                /\ \A j \in entered : j < i
                                /\ \A j \in exited : i < j
                    /\ \A j \in exited :
                          /\ \A i \in entered : i < j
                          /\ broadcasts[j].report =
                                Some(ContextReport(
                                    [i \in 1..Len(BlocksOf(c)) |->
                                        ret[BlocksOf(c)[i]].value]))
                          /\ broadcasts[j].report = Some(SerialContextReport(c)))
    /\ [][(runner.configuration.parallel /\ run_pc = "in_suite") =>
            \A c \in Contexts \ Anonymous :
                BroadcastsOf(c, "exit_context") # {} =>
                    \A d \in Descendants(c) : Frozen(d)]_vars

\* In a parallel run a context with a header has been exited, with hooks in
\* every list and two nodes below it, while the example declared after it
\* broadcast its entry between the context's enter_context and exit_context
\* and has not returned yet.
C32_Witness ==
    /\ runner.configuration.parallel
    /\ \E c \in Contexts \ Anonymous : \E e \in Examples \ Descendants(c) :
          /\ BroadcastsOf(c, "exit_context") # {}
          /\ suite.context[c].before_all # <<>>
          /\ \E i \in BroadcastsOf(e, "enter_example") :
                /\ \A j \in BroadcastsOf(c, "enter_context") : j < i
                /\ \A j \in BroadcastsOf(c, "exit_context") : i < j
          /\ pc[e] \notin {"idle", "done"}

\* The panic of a hook has ended the visit of the suite.
HookPanicked == run_pc \in {"panicking", "unwound"}

\* The log holds an exit_suite event.
ExitSuiteSent ==
    \/ \E i \in 1..Len(broadcasts) : broadcasts[i].name = "exit_suite"
    \/ \E i \in 1..Len(calls) : calls[i].event.name = "exit_suite"

\* C33: when a before_all, before_each, after_each or after_all hook has
\* panicked, in a serial or a parallel run, the run has no SuiteReport, no
\* exit_suite has been broadcast, the evaluation the hook was called for has
\* given no report to its context, and the run neither restores the panic
\* hook nor records anything in should_exit, which no step of that run
\* changes; a run goes past the visit of the suite only with the report of a
\* visit in which every node was evaluated, and then a body that panicked
\* stands in that report as a failure.
C33_HookPanicPropagates ==
    /\ [](/\ HookPanicked =>
               /\ report = None
               /\ ~ExitSuiteSent
               /\ Len(process.completed) < process.runs + other.runs
               /\ \A n \in Nodes \ {Root} :
                     (pc[n] = "panicked" /\ reports[Parent(n)] # <<>>) =>
                         reports[Parent(n)][IndexOf(n)] = None
          /\ run_pc \in {"clean", "record", "returned"} =>
               /\ report # None
               /\ \A n \in Nodes : pc[n] = "done"
               /\ ExitSuiteSent
               /\ SuiteReport_is_failure(report.value) <=> SuiteFails)
    /\ [][HookPanicked =>
            /\ run_pc' \in {"panicking", "unwound", "ready"}
            /\ report' = None
            /\ (runner'.should_exit # runner.should_exit \/ panic_hook' # panic_hook)
                   => other' # other]_vars

\* A parallel run has been unwound by the panic of an after_each hook called
\* for an example whose body had returned, after another block of the same
\* run had been evaluated to its end.
C33_Witness ==
    /\ run_pc = "unwound"
    /\ runner.configuration.parallel
    /\ report = None
    /\ \E e \in Examples :
          /\ body_calls[e] = 1
          /\ ret[e] # None
          /\ reports[Parent(e)] # <<>>
          /\ reports[Parent(e)][IndexOf(e)] = None
    /\ returned_order # <<>>

\* The sum of passed, failed and ignored of a ContextReport.
TotalOf(r) ==
    ContextReport_get_passed(r) + ContextReport_get_failed(r)
    + ContextReport_get_ignored(r)

\* C34: the report of every context that has been visited has one
\* BlockReport per block of the context, in declaration order, each of the
\* kind of its block, with the header of its block (None for a context
\* without a header) and holding the report the evaluation of that block
\* returned; passed, failed and ignored of the report of a context add up to
\* num_examples of the context, and those of the SuiteReport to
\* suite.num_examples().
C34_ReportMirrorsTree ==
    /\ \A c \in Contexts :
          (ret[c] # None /\ pc[c] # "unwound") =>
              LET r == ContextReportOf(c)
              IN  /\ Len(r.sub_reports) = Context_num_blocks(c)
                  /\ \A i \in 1..Len(r.sub_reports) :
                        LET b == BlocksOf(c)[i]
                            sub == r.sub_reports[i]
                        IN  /\ sub.tag = suite.context[b].kind
                            /\ sub.header = suite.context[b].header
                            /\ sub = ret[b].value
                            /\ (b \in Anonymous) <=>
                                   (sub.tag = "Context" /\ sub.header = None)
                  /\ TotalOf(r) = Context_num_examples(c)
                  /\ c # Root =>
                        /\ ret[c].value.tag = "Context"
                        /\ ret[c].value.header = suite.context[c].header
    /\ report # None =>
          /\ report.value.header = suite.header
          /\ report.value.context = ContextReportOf(Root)
          /\ SuiteReport_get_passed(report.value) + SuiteReport_get_failed(report.value)
             + SuiteReport_get_ignored(report.value) = Suite_num_examples
          /\ Suite_num_examples = Cardinality(Examples)

\* A run has built the SuiteReport of a suite whose named context holds an
\* example and a scope without a header holding another example, one of the
\* two examples having failed.
C34_Witness ==
    /\ report # None
    /\ Suite_num_examples = 2
    /\ \E c \in Anonymous \ {Root} :
          /\ Parent(c) # Root
          /\ Context_num_examples(Parent(c)) = 2
          /\ BlockReportAt(c).header = None
          /\ BlockReportAt(c).tag = "Context"
    /\ SuiteReport_get_failed(report.value) = 1
    /\ SuiteReport_get_passed(report.value) = 1

\* The example reports pushed on the reports of the root context.
ExampleReportsPushed ==
    {reports[Root][i].value.report : i \in 1..Len(reports[Root])}

\* C35: for every example report the result is one of Success, Failure and
\* Ignored; is_success is true for Success alone and is_failure for Failure
\* alone, with or without a message, so that both are false for Ignored;
\* passed, failed and ignored are 1, 0, 0 for Success, 0, 1, 0 for Failure
\* and 0, 0, 1 for Ignored, and the BlockReport wrapping the report answers
\* the same; the flag of the logger, which reads is_success alone, is
\* FAILED for Ignored.
C35_ThreeOutcomes ==
    /\ \A i \in 1..Len(reports[Root]) :
          LET b == reports[Root][i].value
              r == b.report.result
              counts == <<ExampleResult_get_passed(r), ExampleResult_get_failed(r),
                          ExampleResult_get_ignored(r)>>
          IN  /\ r.tag \in {"Success", "Failure", "Ignored"}
              /\ ExampleResult_is_success(r) <=> r.tag = "Success"
              /\ ExampleResult_is_failure(r) <=> r.tag = "Failure"
              /\ r.tag = "Ignored" =>
                    ~ExampleResult_is_success(r) /\ ~ExampleResult_is_failure(r)
              /\ ~(ExampleResult_is_success(r) /\ ExampleResult_is_failure(r))
              /\ counts = CASE r.tag = "Success" -> <<1, 0, 0>>
                            [] r.tag = "Failure" -> <<0, 1, 0>>
                            [] r.tag = "Ignored" -> <<0, 0, 1>>
              /\ <<BlockReport_get_passed(b), BlockReport_get_failed(b),
                   BlockReport_get_ignored(b)>> = counts
              /\ BlockReport_is_failure(b) <=> r.tag = "Failure"
              /\ report_flag(ExampleResult_is_success(r)) =
                    IF r.tag = "Success" THEN "ok" ELSE "FAILED"

\* The reports hold an example report of each outcome, the ignored one
\* included.
C35_Witness ==
    /\ Len(reports[Root]) = MaxReports
    /\ {r.result.tag : r \in ExampleReportsPushed} = {"Success", "Failure", "Ignored"}
    /\ run_pc = "ready"

\* The calls a serial run of the tree makes on its observers, from first to
\* last: enter_suite, the events of the depth-first traversal in
\* declaration order (none for a context without a header), exit_suite.
SerialCallSequence ==
    <<Event("enter_suite", suite.header, None)>>
    \o EventsOfSteps(SerialSteps(Root), Len(SerialSteps(Root)))
    \o <<Event("exit_suite", suite.header,
               Some(SuiteReport(suite.header, SerialContextReport(Root))))>>

\* C36: a Logger passes the same calls to its inner SerialLogger in both
\* modes. In serial mode it passes each call as the runner makes it, and
\* once exit_suite is made the calls passed are those of the serial
\* traversal of the tree. In parallel mode it passes nothing before
\* exit_suite, whatever the runner broadcasts meanwhile, and on exit_suite
\* passes, from the report, exactly the calls of the serial traversal of
\* the same tree: enter_suite, the enter and exit of contexts and examples
\* in declaration order with contexts without header left out, exit_suite.
C36_LoggerSameInBothModes ==
    logger.kind = "Logger" =>
        /\ ExitSuiteSent => logger.forwarded = SerialCallSequence
        /\ ~ExitSuiteSent =>
              IF runner.configuration.parallel
              THEN logger.forwarded = <<>>
              ELSE /\ logger.forwarded = broadcasts
                   /\ Len(broadcasts) < Len(SerialCallSequence)
                   /\ \A i \in 1..Len(broadcasts) :
                         broadcasts[i] = SerialCallSequence[i]

\* A parallel run has made exit_suite on a Logger, which replayed a report
\* with a nested context and a context without header, after the runner
\* broadcast the events in an order other than the serial one.
C36_Witness ==
    /\ logger.kind = "Logger"
    /\ runner.configuration.parallel
    /\ ExitSuiteSent
    /\ logger.forwarded # broadcasts
    /\ Len(logger.forwarded) = Len(broadcasts)
    /\ Len(logger.forwarded) >= 8
    /\ \E c \in Contexts \ {Root} : Descendants(c) # {}
    /\ Anonymous \ {Root} # {}

\* The calls of those names the SerialLogger has received.
ReceivedCalls(names) ==
    Cardinality({i \in 1..Len(logger.forwarded) :
                    logger.forwarded[i].name \in names})

\* The suite, context and example nodes the SerialLogger was told were
\* entered and has not been told were exited.
EnteredNotExited ==
    ReceivedCalls({"enter_suite", "enter_context", "enter_example"})
    - ReceivedCalls({"exit_suite", "exit_context", "exit_example"})

\* The SerialLogger has received exit_suite.
ExitSuiteReceived == ReceivedCalls({"exit_suite"}) > 0

\* The exit_suite and exit_example calls received whose write failed.
FailedExitWrites ==
    Cardinality({i \in logger.failed :
                    logger.forwarded[i].name \in {"exit_suite", "exit_example"}})

\* C37 as stated: the level of the SerialLogger is always the number of
\* nodes entered and not exited, never goes below 0, and is 0 once
\* exit_suite was received.
C37_LevelAlwaysNesting ==
    logger.kind # "none" =>
        /\ logger.level = EnteredNotExited
        /\ ~logger.underflow
        /\ ExitSuiteReceived => logger.level = 0

\* C37: under every interleaving of the calls of a serial or parallel run,
\* the level of the SerialLogger never goes below 0 and is the number of
\* nodes entered and not exited plus the number of exit_example and
\* exit_suite calls whose write on the buffer returned an error, since
\* those return before lowering the level; so while no such write has
\* failed the level is the number of nodes entered and not exited, and is
\* 0 once exit_suite was received. A failed write of an enter call changes
\* nothing of this.
C37_LevelTracksNesting ==
    logger.kind # "none" =>
        /\ ~logger.underflow
        /\ EnteredNotExited >= 0
        /\ logger.level = EnteredNotExited + FailedExitWrites
        /\ FailedExitWrites = 0 =>
              /\ logger.level = EnteredNotExited
              /\ ExitSuiteReceived => logger.level = 0
        /\ ExitSuiteReceived => logger.level = FailedExitWrites

\* A SerialLogger attached to a parallel run has received exit_suite after
\* the write of an exit_example failed while another example was entered:
\* its level is left at 1.
C37_Witness ==
    /\ logger.kind = "SerialLogger"
    /\ runner.configuration.parallel
    /\ ExitSuiteReceived
    /\ logger.level = 1
    /\ \E i \in logger.failed :
          /\ logger.forwarded[i].name = "exit_example"
          /\ i > 2
          /\ logger.forwarded[i - 1].name = "enter_example"
          /\ logger.forwarded[i - 1].header # logger.forwarded[i].header

\* The run of this thread is between prepare_before_run and
\* clean_after_run, and so is the run of the other thread.
MainRunning == run_pc \in {"visit_suite", "in_suite", "panicking", "clean"}

OtherRunning == other.pc \in {"visit", "clean"}

\* C38 as stated: while a run is between its prepare_before_run and its
\* clean_after_run, alone or overlapping another run of the process, the
\* silent panic hook is in place.
C38_HandlerStaysDuringRuns ==
    (MainRunning \/ OtherRunning) => panic_hook = "silent"

\* C38: each run puts the silent hook in place when it starts, and a run
\* that no run of another thread has ever overlapped keeps it until its own
\* clean_after_run; but the hook belongs to the process and is not counted:
\* the clean_after_run of whichever run ends first leaves the default hook
\* in place although the other run is still executing, and that run goes on
\* under the default hook until a run starts again. No other step changes
\* the hook.
C38_FirstEndRemovesHandler ==
    /\ []((MainRunning /\ other.runs = 0) => panic_hook = "silent")
    /\ []((MainRunning \/ OtherRunning) => panic_hook \in {"silent", "default"})
    /\ [][/\ (run_pc = "ready" /\ run_pc' = "visit_suite") =>
                panic_hook' = "silent"
          /\ (other.pc \in {"idle", "returned"} /\ other'.pc = "visit") =>
                panic_hook' = "silent"
          /\ (run_pc = "clean" /\ run_pc' = "record") => panic_hook' = "default"
          /\ (other.pc = "clean" /\ other'.pc = "record") =>
                panic_hook' = "default"
          /\ (panic_hook' # panic_hook) =>
                \/ run_pc = "ready" /\ run_pc' = "visit_suite"
                \/ other.pc \in {"idle", "returned"} /\ other'.pc = "visit"
                \/ run_pc = "clean" /\ run_pc' = "record"
                \/ other.pc = "clean" /\ other'.pc = "record"]_vars

\* The run of the other thread has ended while this run, started under the
\* silent hook, has an example whose body panics still to evaluate: the
\* default hook is in place.
C38_Witness ==
    /\ run_pc = "in_suite"
    /\ other.pc \in {"record", "returned"}
    /\ panic_hook = "default"
    /\ \E e \in Examples :
          /\ pc[e] = "idle"
          /\ BodyOf(e).panics

====
